---- MODULE Spec2Model ----
(***************************************************************************)
(* Model of the forge-fsql interactive session (src/src/index.ts), its     *)
(* remote query client (src/src/client.ts), the command classifier         *)
(* (commands.ts) and the history log (src/src/history.ts).                 *)
(*                                                                         *)
(* Text is a sequence of one-character strings.  The fixed SQL texts the   *)
(* dot-commands send are kept as one chunk each (no space at either end,   *)
(* no ";" at the end), since the code only ever trims them and looks at    *)
(* their last character.                                                   *)
(***************************************************************************)
EXTENDS Integers, Sequences, FiniteSets, TLC

VARIABLES
    isMultiline,      \* ForgeSqlCli.isMultiline (index.ts:26)
    multilineBuffer,  \* ForgeSqlCli.multilineBuffer (index.ts:25)
    prompt,           \* the prompt set on the readline interface (index.ts:43, 62, 89, 102)
    history,          \* History.history (history.ts:7)
    historyFile,      \* the text of ~/.forge_sql_history (history.ts:11)
    closed,           \* handleClose has run: the process has exited (index.ts:143-147)
    calls,            \* every ForgeClient.execute call made so far, in order (client.ts:23)
    printed,          \* what console.log has written for dispatched units (index.ts:125-136)
    input,            \* the raw lines readline has delivered so far (index.ts:53)
    mlStart,          \* index in input of the line that entered multiline, or 0 (index.ts:87)
    lastEvent,        \* the event whose handler ran last (index.ts:53-57, client.ts:40-56)
    request,          \* the one invocation a run of ApiSpec makes: client.execute(text) or a command line
    parsed,           \* what parseCommand returned for it (commands.ts parseCommand)
    execs,            \* ForgeClient.execute calls, step by step (client.ts:23-72)
    outputs,          \* the texts console.log has written for them (index.ts:125, 136, 180-182)
    schemaCache,      \* schema.ts: let schemaCache
    loads,            \* loadSchema invocations and their locals (schema.ts:19-61)
    observed          \* what getSchemaCache last returned to the completer (schema.ts:66-68)

sessionVars == <<isMultiline, multilineBuffer, prompt, history, historyFile, closed,
                 calls, printed, input, mlStart, lastEvent>>

apiVars == <<request, parsed, execs, outputs>>

schemaVars == <<schemaCache, loads, observed>>

vars == <<isMultiline, multilineBuffer, prompt, history, historyFile, closed,
          calls, printed, input, mlStart, lastEvent,
          request, parsed, execs, outputs, schemaCache, loads, observed>>

\* ---------------------------------------------------------------- bounds

MaxInput == 3

\* History's default maxSize.
maxSize == 1000

\* ------------------------------------------------------------------ text

NL == "\n"

IsWhite(c) == c \in {" ", "\t", NL}

RECURSIVE TrimStart(_)
TrimStart(s) ==
    IF s # <<>> /\ IsWhite(Head(s)) THEN TrimStart(Tail(s)) ELSE s

RECURSIVE TrimEnd(_)
TrimEnd(s) ==
    IF s # <<>> /\ IsWhite(s[Len(s)]) THEN TrimEnd(SubSeq(s, 1, Len(s) - 1)) ELSE s

\* handleLine without the trim of line 71
TrimNone(s) == s

\* String.prototype.trim
Trim(s) == TrimEnd(TrimStart(s))

\* String.prototype.endsWith / startsWith with a one-character argument
EndsWith(s, c) == s # <<>> /\ s[Len(s)] = c

StartsWith(s, c) == s # <<>> /\ Head(s) = c

\* Array.prototype.join("\n")
RECURSIVE JoinNL(_)
JoinNL(ss) ==
    IF ss = <<>> THEN <<>>
    ELSE IF Len(ss) = 1 THEN ss[1]
    ELSE ss[1] \o <<NL>> \o JoinNL(Tail(ss))

\* String.prototype.split(sep) for a one-character separator
RECURSIVE SplitOn(_, _)
SplitOn(s, sep) ==
    IF \A i \in 1..Len(s) : s[i] # sep THEN <<s>>
    ELSE LET k == CHOOSE i \in 1..Len(s) :
                      s[i] = sep /\ \A j \in 1..(i - 1) : s[j] # sep
         IN  <<SubSeq(s, 1, k - 1)>> \o SplitOn(SubSeq(s, k + 1, Len(s)), sep)

\* a split that drops the empty part after trailing whitespace
RECURSIVE SplitWsNoTrailing(_)
SplitWsNoTrailing(s) ==
    IF \A i \in 1..Len(s) : ~IsWhite(s[i]) THEN <<s>>
    ELSE LET k == CHOOSE i \in 1..Len(s) :
                      IsWhite(s[i]) /\ \A j \in 1..(i - 1) : ~IsWhite(s[j])
             rest == TrimStart(SubSeq(s, k + 1, Len(s)))
         IN  <<SubSeq(s, 1, k - 1)>> \o
             (IF rest = <<>> THEN <<>> ELSE SplitWsNoTrailing(rest))

\* String.prototype.split(/\s+/): runs of whitespace separate the parts
RECURSIVE SplitWs(_)
SplitWs(s) ==
    IF \A i \in 1..Len(s) : ~IsWhite(s[i]) THEN <<s>>
    ELSE LET k == CHOOSE i \in 1..Len(s) :
                      IsWhite(s[i]) /\ \A j \in 1..(i - 1) : ~IsWhite(s[j])
             rest == SubSeq(s, k + 1, Len(s))
         IN  <<SubSeq(s, 1, k - 1)>> \o SplitWs(TrimStart(rest))

\* Array.prototype.join(" ")
RECURSIVE JoinSp(_)
JoinSp(ss) ==
    IF ss = <<>> THEN <<>>
    ELSE IF Len(ss) = 1 THEN ss[1]
    ELSE ss[1] \o <<" ">> \o JoinSp(Tail(ss))

\* Array.prototype.filter(Boolean) on an array of strings
RECURSIVE FilterNonEmpty(_)
FilterNonEmpty(ss) ==
    IF ss = <<>> THEN <<>>
    ELSE IF Head(ss) = <<>> THEN FilterNonEmpty(Tail(ss))
    ELSE <<Head(ss)>> \o FilterNonEmpty(Tail(ss))

\* Array.prototype.slice(-n), n > 0
LastN(ss, n) == IF Len(ss) <= n THEN ss ELSE SubSeq(ss, Len(ss) - n + 1, Len(ss))

\* ------------------------------------------------------------- history.ts

\* History.add deduplicating against every entry instead of the last one
HistoryAddAny(h, command) ==
    LET trimmed == Trim(command)
    IN  IF trimmed # <<>> /\ \A i \in 1..Len(h) : h[i] # trimmed
        THEN Append(h, trimmed)
        ELSE h

\* History.add
HistoryAdd(h, command) ==
    LET trimmed == Trim(command)
    IN  IF trimmed # <<>> /\ (h = <<>> \/ trimmed # h[Len(h)])
        THEN Append(h, trimmed)
        ELSE h

\* History.save: what writeFileSync puts in the file
HistorySave(h) == JoinNL(LastN(h, maxSize))

\* History.load: the entries read back from the file
HistoryLoad(file) == FilterNonEmpty(SplitOn(file, NL))

\* ------------------------------------------------------------ commands.ts

Name_schema == <<".", "s", "c", "h", "e", "m", "a">>
Name_tables == <<".", "t", "a", "b", "l", "e", "s">>
Name_describe == <<".", "d", "e", "s", "c", "r", "i", "b", "e">>
Name_indexes == <<".", "i", "n", "d", "e", "x", "e", "s">>
Name_migrations == <<".", "m", "i", "g", "r", "a", "t", "i", "o", "n", "s">>
Name_database == <<".", "d", "a", "t", "a", "b", "a", "s", "e">>
Name_refreshSchema ==
    <<".", "r", "e", "f", "r", "e", "s", "h", "S", "c", "h", "e", "m", "a">>
Name_help == <<".", "h", "e", "l", "p">>

\* the names of the registry, in its order
specialCommands ==
    <<Name_schema, Name_tables, Name_describe, Name_indexes, Name_migrations,
      Name_database, Name_refreshSchema, Name_help>>

\* the value of `command` when find() returns undefined
NoCommand == <<>>

\* parseCommand without the trim of line 246
parseCommandNoTrim(inp) ==
    LET trimmed == inp
    IN  IF StartsWith(trimmed, ".")
        THEN LET parts == SplitWs(trimmed)
                 cmdName == parts[1]
             IN  [command |-> IF \E i \in 1..Len(specialCommands) :
                                     specialCommands[i] = cmdName
                              THEN cmdName ELSE NoCommand,
                  args |-> JoinSp(Tail(parts)),
                  isSpecial |-> TRUE]
        ELSE [command |-> NoCommand, args |-> <<>>, isSpecial |-> FALSE]

parseCommand(inp) ==
    LET trimmed == Trim(inp)
    IN  IF StartsWith(trimmed, ".")
        THEN LET parts == SplitWs(trimmed)
                 cmdName == parts[1]
             IN  [command |-> IF \E i \in 1..Len(specialCommands) :
                                     specialCommands[i] = cmdName
                              THEN cmdName ELSE NoCommand,
                  args |-> JoinSp(Tail(parts)),
                  isSpecial |-> TRUE]
        ELSE [command |-> NoCommand, args |-> <<>>, isSpecial |-> FALSE]

\* the SQL text a registry command passes to client.execute
CommandSql(command, args) ==
    IF command = Name_schema THEN
        <<"SELECT table_name, column_name, data_type FROM information_schema.columns WHERE table_schema = DATABASE() ORDER BY table_name, ordinal_position">>
    ELSE IF command = Name_tables THEN
        <<"SELECT table_name FROM information_schema.tables WHERE table_schema = DATABASE()">>
    ELSE IF command = Name_describe THEN
        <<"DESCRIBE", " ">> \o args
    ELSE IF command = Name_indexes THEN
        <<"SELECT TABLE_NAME, INDEX_NAME, COLUMN_NAME, SEQ_IN_INDEX, NON_UNIQUE FROM information_schema.STATISTICS WHERE TABLE_SCHEMA = DATABASE() ORDER BY CASE WHEN TABLE_NAME = '__migrations' THEN 1 ELSE 0 END, TABLE_NAME, INDEX_NAME, SEQ_IN_INDEX">>
    ELSE IF command = Name_migrations THEN
        <<"SELECT * FROM __migrations">>
    ELSE IF command = Name_database THEN
        <<"SHOW DATABASES">>
    ELSE \* .refreshSchema: the metadata query of loadSchema
        <<NL, " ", "SELECT table_name, column_name FROM information_schema.columns WHERE table_schema = DATABASE() ORDER BY table_name, ordinal_position", NL, " ">>

\* .describe without the test of line 174
CommandIsLocalHelpOnly(command, args) == command = Name_help

\* whether the command's execute returns its text without calling the client
CommandIsLocal(command, args) ==
    \/ command = Name_help
    \/ command = Name_describe /\ args = <<>>

\* the text such a command returns
LocalOutput(command) ==
    IF command = Name_help THEN "Special Commands:" ELSE "Usage: .describe <table_name>"

\* -------------------------------------------------------------- client.ts

\* line 27 testing the untrimmed text
FinalSqlNoTrim(sql) == IF EndsWith(sql, ";") THEN sql ELSE sql \o <<";">>

\* ForgeClient.execute, line 27: the query text of the request body
FinalSql(sql) == IF EndsWith(Trim(sql), ";") THEN sql ELSE sql \o <<";">>

\* the call as execute leaves it at `await fetch(...)`: the abort timer is armed
NewCall(unit, sql) ==
    [unit |-> unit, sql |-> sql, query |-> FinalSql(sql),
     phase |-> "fetch", timer |-> TRUE]

\* --------------------------------------------------------------- index.ts

Primary == "fsql> "
Continuation == "      ...> "

Tok_exit == <<"e", "x", "i", "t">>
Tok_quit == <<"q", "u", "i", "t">>
Tok_dotexit == <<".", "e", "x", "i", "t">>

\* handleLine, line 74
IsExitToken(inp) == inp = Tok_exit \/ inp = Tok_quit \/ inp = Tok_dotexit

\* line 86 with the terminator test inverted
EntersMultilineInverted(isM, inp) ==
    ~isM /\ EndsWith(inp, ";") /\ ~StartsWith(inp, ".")

\* handleLine, line 86
EntersMultiline(isM, inp) == ~isM /\ ~EndsWith(inp, ";") /\ ~StartsWith(inp, ".")

\* line 96 joining with a space
AppendLineSpace(buf, inp) == buf \o <<" ">> \o inp

\* handleLine, line 96
AppendLine(buf, inp) == buf \o <<NL>> \o inp

\* line 98 also taking a dot-prefixed line as complete
CompletesOrDot(inp) == EndsWith(inp, ";") \/ StartsWith(inp, ".")

\* handleLine, line 98
Completes(inp) == EndsWith(inp, ";")

\* the raw lines the terminal delivers
Lines ==
    { <<" ">>,
      <<" ", "a", " ">>,
      <<"b", ";", " ">>,
      Name_help,
      Name_tables,
      <<".", "x", " ", " ", "y">>,
      Tok_exit,
      <<" ">> \o Tok_quit,
      Tok_dotexit }

\* the history files the session may find at startup
InitialFiles == { <<>>, <<"b", ";">> }

\* executeCommand: history.add, parseCommand, then the command, the unknown-command
\* notice or client.execute up to its `await fetch`
\* executeCommand without the branch of lines 127-129
ExecuteCommandUnknownAsSql(unit) ==
    LET p == parseCommand(unit)
    IN  /\ history' = HistoryAdd(history, unit)
        /\ IF p.isSpecial /\ p.command # NoCommand
           THEN IF CommandIsLocal(p.command, p.args)
                THEN /\ printed' = Append(printed, [unit |-> unit, out |-> LocalOutput(p.command)])
                     /\ calls' = calls
                ELSE /\ calls' = Append(calls, NewCall(unit, CommandSql(p.command, p.args)))
                     /\ printed' = printed
           ELSE /\ calls' = Append(calls, NewCall(unit, unit))
                /\ printed' = printed

ExecuteCommand(unit) ==
    LET p == parseCommand(unit)
    IN  /\ history' = HistoryAdd(history, unit)
        /\ IF p.isSpecial
           THEN IF p.command = NoCommand
                THEN /\ printed' = Append(printed, [unit |-> unit, out |-> "Unknown command"])
                     /\ calls' = calls
                ELSE IF CommandIsLocal(p.command, p.args)
                THEN /\ printed' = Append(printed, [unit |-> unit, out |-> LocalOutput(p.command)])
                     /\ calls' = calls
                ELSE /\ calls' = Append(calls, NewCall(unit, CommandSql(p.command, p.args)))
                     /\ printed' = printed
           ELSE /\ calls' = Append(calls, NewCall(unit, unit))
                /\ printed' = printed

\* handleClose without history.save
HandleCloseNoSave ==
    /\ historyFile' = historyFile
    /\ closed' = TRUE

\* handleClose recording the pending buffer before it saves
HandleCloseFlushing ==
    /\ historyFile' = HistorySave(HistoryAdd(history, multilineBuffer))
    /\ closed' = TRUE

\* handleClose: history.save, then process.exit
HandleClose ==
    /\ historyFile' = HistorySave(history)
    /\ closed' = TRUE

\* the "line" event: handleLine up to its first suspension
HandleLine(line) ==
    /\ UNCHANGED <<apiVars, schemaVars>>
    /\ ~closed
    /\ Len(input) < MaxInput
    /\ input' = Append(input, line)
    /\ lastEvent' = "line"
    /\ LET inp == Trim(line)
       IN  IF IsExitToken(inp)
           THEN /\ HandleClose
                /\ UNCHANGED <<isMultiline, multilineBuffer, prompt, history,
                               calls, printed, mlStart>>
           ELSE IF inp = <<>>
           THEN UNCHANGED <<isMultiline, multilineBuffer, prompt, history,
                            historyFile, closed, calls, printed, mlStart>>
           ELSE IF EntersMultiline(isMultiline, inp)
           THEN /\ isMultiline' = TRUE
                /\ multilineBuffer' = inp
                /\ prompt' = Continuation
                /\ mlStart' = Len(input) + 1
                /\ UNCHANGED <<history, historyFile, closed, calls, printed>>
           ELSE IF isMultiline
           THEN IF Completes(inp)
                THEN /\ multilineBuffer' = <<>>
                     /\ isMultiline' = FALSE
                     /\ prompt' = Primary
                     /\ mlStart' = 0
                     /\ ExecuteCommand(AppendLine(multilineBuffer, inp))
                     /\ UNCHANGED <<historyFile, closed>>
                ELSE /\ multilineBuffer' = AppendLine(multilineBuffer, inp)
                     /\ UNCHANGED <<isMultiline, prompt, history, historyFile,
                                    closed, calls, printed, mlStart>>
           ELSE /\ ExecuteCommand(inp)
                /\ UNCHANGED <<isMultiline, multilineBuffer, prompt,
                               historyFile, closed, mlStart>>

\* the SIGINT handler leaving the continuation prompt in place
SigintKeepsPrompt ==
    /\ UNCHANGED <<apiVars, schemaVars>>
    /\ ~closed
    /\ lastEvent' = "SIGINT"
    /\ IF isMultiline
       THEN /\ multilineBuffer' = <<>>
            /\ isMultiline' = FALSE
            /\ mlStart' = 0
       ELSE UNCHANGED <<isMultiline, multilineBuffer, mlStart>>
    /\ UNCHANGED <<prompt, history, historyFile, closed, calls, printed, input>>

\* the SIGINT handler also dropping the calls in flight
SigintAborts ==
    /\ UNCHANGED <<apiVars, schemaVars>>
    /\ ~closed
    /\ lastEvent' = "SIGINT"
    /\ IF isMultiline
       THEN /\ multilineBuffer' = <<>>
            /\ isMultiline' = FALSE
            /\ prompt' = Primary
            /\ mlStart' = 0
       ELSE UNCHANGED <<isMultiline, multilineBuffer, prompt, mlStart>>
    /\ calls' = [i \in 1..Len(calls) |-> [calls[i] EXCEPT !.phase = "done"]]
    /\ UNCHANGED <<history, historyFile, closed, printed, input>>

\* the "SIGINT" event (Ctrl+C)
Sigint ==
    /\ UNCHANGED <<apiVars, schemaVars>>
    /\ ~closed
    /\ lastEvent' = "SIGINT"
    /\ IF isMultiline
       THEN /\ multilineBuffer' = <<>>
            /\ isMultiline' = FALSE
            /\ prompt' = Primary
            /\ mlStart' = 0
       ELSE UNCHANGED <<isMultiline, multilineBuffer, prompt, mlStart>>
    /\ UNCHANGED <<history, historyFile, closed, calls, printed, input>>

\* the "close" event without an exit token (Ctrl+D)
EndOfInput ==
    /\ UNCHANGED <<apiVars, schemaVars>>
    /\ ~closed
    /\ lastEvent' = "close"
    /\ HandleClose
    /\ UNCHANGED <<isMultiline, multilineBuffer, prompt, history, calls,
                   printed, input, mlStart>>

\* ------------------------------------------- client.ts: a call in flight

\* the call's promise resolves with `out`; its unit's output is printed
\* (console.log in executeCommand) and handleLine runs rl.prompt()
Resolve(i, out) ==
    /\ UNCHANGED <<apiVars, schemaVars>>
    /\ calls' = [calls EXCEPT ![i].phase = "done"]
    /\ printed' = Append(printed, [unit |-> calls[i].unit, out |-> out])
    /\ lastEvent' = "response"
    /\ UNCHANGED <<isMultiline, multilineBuffer, prompt, history, historyFile,
                   closed, input, mlStart>>

\* fetch resolves with the response's status line and headers; line 47 clears
\* the timer, and the body is awaited next (text() if !ok, json() otherwise)
FetchResolve(i, ok) ==
    /\ UNCHANGED <<apiVars, schemaVars>>
    /\ ~closed
    /\ i \in 1..Len(calls)
    /\ calls[i].phase = "fetch"
    /\ calls' = [calls EXCEPT ![i].phase = IF ok THEN "json" ELSE "text",
                              ![i].timer = FALSE]
    /\ lastEvent' = "response"
    /\ UNCHANGED <<isMultiline, multilineBuffer, prompt, history, historyFile,
                   closed, printed, input, mlStart>>

\* fetch rejects with a network failure: the catch at line 66
FetchReject(i) ==
    /\ ~closed
    /\ i \in 1..Len(calls)
    /\ calls[i].phase = "fetch"
    /\ Resolve(i, "error.message")

\* the timer set at line 31 fires: controller.abort() rejects the pending
\* fetch with an AbortError
TimerFire(i) ==
    /\ ~closed
    /\ i \in 1..Len(calls)
    /\ calls[i].phase = "fetch"
    /\ calls[i].timer
    /\ Resolve(i, "Query timeout exceeded")

\* response.text() / response.json() resolves
BodyDone(i) ==
    /\ ~closed
    /\ i \in 1..Len(calls)
    /\ calls[i].phase \in {"text", "json"}
    /\ Resolve(i, IF calls[i].phase = "text" THEN "HTTP status: errorText" ELSE "data")

\* response.text() / response.json() rejects (the connection drops, or the
\* body is not JSON): the catch at line 66
BodyFail(i) ==
    /\ ~closed
    /\ i \in 1..Len(calls)
    /\ calls[i].phase \in {"text", "json"}
    /\ Resolve(i, "error.message")

\* ------------------------------------ client.ts: execute, step by step

\* An optional value (a property that may be absent): <<>> or <<v>>.
Absent == <<>>
Some(v) == <<v>>

\* SqlResult
NoResult == [rows |-> Absent, affectedRows |-> Absent, error |-> Absent, metadata |-> Absent]

\* a metadata row with "" for a property that is absent, null or empty
Row(t, c, T, C) ==
    [null |-> FALSE, table_name |-> t, column_name |-> c, TABLE_NAME |-> T, COLUMN_NAME |-> C]

\* a null element of rows
NullRow == [null |-> TRUE, table_name |-> "", column_name |-> "", TABLE_NAME |-> "", COLUMN_NAME |-> ""]

\* a decoded JSON body: null, or an object (a number or string spreads like {})
Json(rows, affectedRows, error, metadata) ==
    [null |-> FALSE, rows |-> rows, affectedRows |-> affectedRows,
     error |-> error, metadata |-> metadata]

JsonNull == [null |-> TRUE, rows |-> Absent, affectedRows |-> Absent,
             error |-> Absent, metadata |-> Absent]

\* the catch block without the "Unknown error" fallback
ExecuteCatchNoFallback(err) ==
    IF err.name = "AbortError"
    THEN [NoResult EXCEPT !.error = Some("Query timeout exceeded")]
    ELSE [NoResult EXCEPT !.error = IF err.message = "" THEN Absent ELSE Some(err.message)]

\* execute, lines 66-71: the catch block
ExecuteCatch(err) ==
    IF err.name = "AbortError"
    THEN [NoResult EXCEPT !.error = Some("Query timeout exceeded")]
    ELSE [NoResult EXCEPT !.error = Some(IF err.message # "" THEN err.message
                                                            ELSE "Unknown error")]

\* execute, lines 49-54: the result for a response that is not ok
ExecuteNotOk(status, errorText) ==
    [NoResult EXCEPT !.error = Some("HTTP " \o ToString(status) \o ": " \o errorText)]

\* execute, lines 56-65: the result for a decoded body; data.metadata of null
\* throws a TypeError, which the catch block takes
ExecuteOk(data) ==
    IF data.null
    THEN ExecuteCatch([name |-> "TypeError",
                       message |-> "Cannot read properties of null (reading 'metadata')"])
    ELSE [rows |-> data.rows, affectedRows |-> data.affectedRows, error |-> data.error,
          metadata |-> Some((IF data.metadata = Absent THEN {} ELSE data.metadata[1])
                                \cup {"queryTime"})]

\* execute up to `await fetch(...)`: one request is sent and the abort timer is armed
ExecStart(owner, sql) ==
    [owner |-> owner, sql |-> sql, query |-> FinalSql(sql), requests |-> 1,
     phase |-> "fetch", timer |-> TRUE, status |-> 0, body |-> "",
     outcome |-> "", settled |-> "pending", result |-> NoResult, taken |-> FALSE]

\* formatResult reaches formatTable with a row that is null: row[h] of line 42
\* (Object.keys(rows[0]) of line 32 for the first row) throws a TypeError
FormatThrows(result) ==
    /\ ~(result.error # Absent /\ result.error[1] # "")
    /\ result.rows # Absent
    /\ \E k \in 1..Len(result.rows[1]) : result.rows[1][k].null

\* ResultFormatter.formatResult, by the precedence of its branches
FormatResult(result) ==
    IF result.error # Absent /\ result.error[1] # "" THEN "Error: " \o result.error[1]
    ELSE IF result.rows # Absent THEN "(table)"
    ELSE IF result.affectedRows # Absent THEN "row(s) affected"
    ELSE "Query executed successfully"

\* the statuses, bodies and failures the endpoint and the network may produce
Statuses == {200, 404, 500}

\* Response.ok
ResponseOk(status) == status \in 200..299

ErrorTexts == {"", "boom"}

FailureMessages == {"", "fetch failed"}

RowsUsers == << Row("users", "id", "", ""), Row("users", "name", "", "") >>
RowsUpper == << Row("", "", "posts", "ID"), Row("users", "", "", "") >>
RowsNull == << Row("users", "id", "", ""), NullRow >>

JsonBodies ==
    { Json(Some(<<>>), Absent, Absent, Absent),
      Json(Some(RowsUsers), Absent, Absent, Some({"db"})),
      Json(Some(RowsUpper), Absent, Absent, Absent),
      Json(Some(RowsNull), Absent, Absent, Absent),
      Json(Absent, Some(1), Absent, Absent),
      Json(Absent, Absent, Some("syntax error"), Absent),
      Json(Absent, Absent, Absent, Absent),
      JsonNull }

\* the texts a caller may hand to execute
SqlTexts ==
    { <<>>, <<" ">>, <<"a">>, <<"a", ";">>, <<"a", ";", " ">>, <<" ", "a", ";", NL>>,
      <<"a", " ", ";", "b">> }

\* the promise of execs[i] settles: every statement after line 27 is inside
\* the try, and the catch block returns, so the promise resolves
Settle(i, outcome, result) ==
    execs' = [execs EXCEPT ![i].phase = "settled", ![i].timer = FALSE,
                           ![i].outcome = outcome, ![i].settled = "resolved",
                           ![i].result = result]

\* fetch resolves with the status line; line 47 clears the timer, and the body
\* is awaited next (text() if !ok, json() otherwise)
ExecFetchResolve(i, status) ==
    /\ i \in 1..Len(execs)
    /\ execs[i].phase = "fetch"
    /\ execs' = [execs EXCEPT ![i].phase = IF ResponseOk(status) THEN "json" ELSE "text",
                              ![i].timer = FALSE, ![i].status = status]
    /\ UNCHANGED <<sessionVars, request, parsed, outputs, schemaVars>>

\* fetch rejects with a network failure
ExecFetchReject(i, message) ==
    /\ i \in 1..Len(execs)
    /\ execs[i].phase = "fetch"
    /\ Settle(i, "network", ExecuteCatch([name |-> "TypeError", message |-> message]))
    /\ UNCHANGED <<sessionVars, request, parsed, outputs, schemaVars>>

\* the timer of line 31 fires: controller.abort() rejects the pending fetch
ExecTimerFire(i) ==
    /\ i \in 1..Len(execs)
    /\ execs[i].phase = "fetch"
    /\ execs[i].timer
    /\ Settle(i, "timeout", ExecuteCatch([name |-> "AbortError",
                                          message |-> "This operation was aborted"]))
    /\ UNCHANGED <<sessionVars, request, parsed, outputs, schemaVars>>

\* response.text() resolves, lines 50-53
ExecText(i, errorText) ==
    /\ i \in 1..Len(execs)
    /\ execs[i].phase = "text"
    /\ execs' = [execs EXCEPT ![i].phase = "settled", ![i].outcome = "notok",
                              ![i].settled = "resolved", ![i].body = errorText,
                              ![i].result = ExecuteNotOk(execs[i].status, errorText)]
    /\ UNCHANGED <<sessionVars, request, parsed, outputs, schemaVars>>

\* response.json() resolves, lines 56-65
ExecJson(i, data) ==
    /\ i \in 1..Len(execs)
    /\ execs[i].phase = "json"
    /\ Settle(i, IF data.null THEN "decode" ELSE "ok", ExecuteOk(data))
    /\ UNCHANGED <<sessionVars, request, parsed, outputs, schemaVars>>

\* response.text() or response.json() rejects: the connection drops, or the
\* body is not JSON
ExecBodyFail(i, message) ==
    /\ i \in 1..Len(execs)
    /\ execs[i].phase \in {"text", "json"}
    /\ Settle(i, "decode", ExecuteCatch([name |-> "SyntaxError", message |-> message]))
    /\ UNCHANGED <<sessionVars, request, parsed, outputs, schemaVars>>

\* ------------------------------------------------------------- schema.ts

\* lines 9-13 and 29-33: a cache with nothing in it. columns is the Map, as
\* the sequence of its entries in insertion order.
EmptyCache == [tables |-> <<>>, columns |-> <<>>, allColumns |-> <<>>]

\* line 41 reading the lower-case key only
TableNameOfLower(row) == row.table_name

\* line 41
TableNameOf(row) == IF row.table_name # "" THEN row.table_name ELSE row.TABLE_NAME

\* line 42
ColumnNameOf(row) == IF row.column_name # "" THEN row.column_name ELSE row.COLUMN_NAME

\* Set.prototype.add on a Set kept in insertion order
SetAdd(set, v) == IF \E i \in 1..Len(set) : set[i] = v THEN set ELSE Append(set, v)

\* lines 49-52: columns.has / set / get(...).push
ColumnsPush(columns, tableName, columnName) ==
    IF \E i \in 1..Len(columns) : columns[i].table = tableName
    THEN [i \in 1..Len(columns) |->
             IF columns[i].table = tableName
             THEN [columns[i] EXCEPT !.cols = Append(@, columnName)]
             ELSE columns[i]]
    ELSE Append(columns, [table |-> tableName, cols |-> <<columnName>>])

\* how many loadSchema invocations a run makes
MaxLoads == 2

\* how many metadata rows a drawn result holds
MaxRows == 3

\* loadSchema up to its await, lines 20-27: the metadata query is issued
LoadSchema(caller) ==
    /\ execs' = Append(execs, ExecStart("load", CommandSql(Name_refreshSchema, <<>>)))
    /\ loads' = Append(loads, [caller |-> caller, exec |-> Len(execs) + 1, pc |-> "await",
                               rows |-> <<>>, k |-> 1, cache |-> EmptyCache,
                               tableSet |-> <<>>, columnSet |-> <<>>])

\* index.ts start, lines 172-179: the load made before the first prompt
StartLoad ==
    /\ loads = <<>>
    /\ request = <<>>
    /\ LoadSchema("start")
    /\ UNCHANGED <<sessionVars, request, parsed, outputs, schemaCache, observed>>

\* a .refreshSchema command line is dispatched: lines 210-212
RefreshLoad ==
    /\ request = <<>>
    /\ Len(loads) \in 1..(MaxLoads - 1)
    /\ LoadSchema("refresh")
    /\ UNCHANGED <<sessionVars, request, parsed, outputs, schemaCache, observed>>

\* the await of line 22 resumes with the cache of the previous generation
\* instead of a fresh one
LoadResumeMerging(l) ==
    /\ l \in 1..Len(loads)
    /\ loads[l].pc = "await"
    /\ execs[loads[l].exec].phase = "settled"
    /\ LET result == execs[loads[l].exec].result
       IN  loads' = [loads EXCEPT ![l].cache = schemaCache,
                                  ![l].tableSet = schemaCache.tables,
                                  ![l].columnSet = schemaCache.allColumns,
                                  ![l].rows = IF result.rows # Absent THEN result.rows[1] ELSE <<>>,
                                  ![l].pc = IF result.rows # Absent THEN "loop" ELSE "install"]
    /\ execs' = [execs EXCEPT ![loads[l].exec].taken = TRUE]
    /\ UNCHANGED <<sessionVars, request, parsed, outputs, schemaCache, observed>>

\* the await of line 22 resumes: lines 29-37. result.error is not looked at.
LoadResume(l) ==
    /\ l \in 1..Len(loads)
    /\ loads[l].pc = "await"
    /\ execs[loads[l].exec].phase = "settled"
    /\ LET result == execs[loads[l].exec].result
       IN  loads' = [loads EXCEPT ![l].cache = EmptyCache,
                                  ![l].tableSet = <<>>,
                                  ![l].columnSet = <<>>,
                                  ![l].rows = IF result.rows # Absent THEN result.rows[1] ELSE <<>>,
                                  ![l].pc = IF result.rows # Absent THEN "loop" ELSE "install"]
    /\ execs' = [execs EXCEPT ![loads[l].exec].taken = TRUE]
    /\ UNCHANGED <<sessionVars, request, parsed, outputs, schemaCache, observed>>

\* the loop body writing to the module's schemaCache instead of the local
LoopStepInPlace(l) ==
    /\ l \in 1..Len(loads)
    /\ loads[l].pc = "loop"
    /\ loads[l].k <= Len(loads[l].rows)
    /\ LET row == loads[l].rows[loads[l].k]
           tableName == TableNameOf(row)
           columnName == ColumnNameOf(row)
       IN  IF row.null
           THEN /\ loads' = [loads EXCEPT ![l].pc = "threw"]
                /\ schemaCache' = schemaCache
           ELSE IF tableName = "" \/ columnName = ""
           THEN /\ loads' = [loads EXCEPT ![l].k = @ + 1]
                /\ schemaCache' = schemaCache
           ELSE /\ loads' = [loads EXCEPT
                       ![l].k = @ + 1,
                       ![l].tableSet = SetAdd(@, tableName),
                       ![l].columnSet = SetAdd(@, columnName),
                       ![l].cache.columns = ColumnsPush(@, tableName, columnName)]
                /\ schemaCache' = [loads[l].cache EXCEPT
                       !.columns = ColumnsPush(@, tableName, columnName)]
    /\ UNCHANGED <<sessionVars, apiVars, observed>>

\* one pass of the loop body, lines 39-53; reading a property of a null row
\* throws a TypeError out of loadSchema
LoopStep(l) ==
    /\ l \in 1..Len(loads)
    /\ loads[l].pc = "loop"
    /\ loads[l].k <= Len(loads[l].rows)
    /\ LET row == loads[l].rows[loads[l].k]
           tableName == TableNameOf(row)
           columnName == ColumnNameOf(row)
       IN  IF row.null
           THEN loads' = [loads EXCEPT ![l].pc = "threw"]
           ELSE IF tableName = "" \/ columnName = ""
           THEN loads' = [loads EXCEPT ![l].k = @ + 1]
           ELSE loads' = [loads EXCEPT
                    ![l].k = @ + 1,
                    ![l].tableSet = SetAdd(@, tableName),
                    ![l].columnSet = SetAdd(@, columnName),
                    ![l].cache.columns = ColumnsPush(@, tableName, columnName)]
    /\ UNCHANGED <<sessionVars, apiVars, schemaCache, observed>>

\* the end of the loop without line 56
LoopEndWithoutAllColumns(l) ==
    /\ l \in 1..Len(loads)
    /\ loads[l].pc = "loop"
    /\ loads[l].k > Len(loads[l].rows)
    /\ loads' = [loads EXCEPT ![l].cache.tables = loads[l].tableSet,
                              ![l].pc = "install"]
    /\ UNCHANGED <<sessionVars, apiVars, schemaCache, observed>>

\* the loop is over: lines 55-56
LoopEnd(l) ==
    /\ l \in 1..Len(loads)
    /\ loads[l].pc = "loop"
    /\ loads[l].k > Len(loads[l].rows)
    /\ loads' = [loads EXCEPT ![l].cache.tables = loads[l].tableSet,
                              ![l].cache.allColumns = loads[l].columnSet,
                              ![l].pc = "install"]
    /\ UNCHANGED <<sessionVars, apiVars, schemaCache, observed>>

\* lines 59-60: the local cache becomes the module's cache and the elapsed
\* time is returned
LoadInstall(l) ==
    /\ l \in 1..Len(loads)
    /\ loads[l].pc = "install"
    /\ schemaCache' = loads[l].cache
    /\ loads' = [loads EXCEPT ![l].pc = "done"]
    /\ UNCHANGED <<sessionVars, apiVars, observed>>

\* what the caller of loadSchema writes: commands.ts lines 213 and 216,
\* index.ts lines 180 and 182
LoadMessage(caller, threw) ==
    IF caller = "refresh"
    THEN IF threw THEN "Failed to refresh schema: " ELSE "Schema refreshed in "
    ELSE IF threw THEN "Failed (autocompletion unavailable)" ELSE "Done"

\* the caller's await of loadSchema resumes, in its try or in its catch
LoadReturn(l) ==
    /\ l \in 1..Len(loads)
    /\ loads[l].pc \in {"done", "threw"}
    /\ outputs' = Append(outputs, [of |-> "load", index |-> l,
                                   out |-> LoadMessage(loads[l].caller, loads[l].pc = "threw")])
    /\ loads' = [loads EXCEPT ![l].pc = IF @ = "done" THEN "returned" ELSE "failed"]
    /\ UNCHANGED <<sessionVars, request, parsed, execs, schemaCache, observed>>

\* getSchemaCache, line 67, as the completer calls it
GetSchemaCache ==
    /\ observed' = schemaCache
    /\ UNCHANGED <<sessionVars, apiVars, schemaCache, loads>>

\* --------------------------------------- one invocation of the client API

\* the command lines a caller may hand to parseCommand
CmdInputs ==
    { Name_help, <<" ">> \o Name_help, <<".", "H", "E", "L", "P">>, Name_help \o <<"x">>,
      Name_describe, Name_describe \o <<" ">>,
      Name_describe \o <<" ", " ", "t", "\t", "u", " ">>,
      Name_tables \o <<" ", "t">>, Name_refreshSchema,
      <<".">>, <<".", " ", "x">>, <<"a", ".", "b">>, <<"a">>, <<>> }

Requests ==
    { [kind |-> "execute", text |-> sql] : sql \in SqlTexts }
        \cup { [kind |-> "command", text |-> line] : line \in CmdInputs }

\* a caller invokes client.execute(text)
ClientExecute ==
    /\ request # <<>>
    /\ request[1].kind = "execute"
    /\ execs = <<>>
    /\ execs' = <<ExecStart("caller", request[1].text)>>
    /\ UNCHANGED <<sessionVars, request, parsed, outputs, schemaVars>>

\* a caller invokes parseCommand(text)
ParseCommand ==
    /\ request # <<>>
    /\ request[1].kind = "command"
    /\ parsed = <<>>
    /\ parsed' = <<parseCommand(request[1].text)>>
    /\ UNCHANGED <<sessionVars, request, execs, outputs, schemaVars>>

\* the caller runs the command parseCommand found: command.execute(client, args)
\* up to its first await, or to its return when it awaits nothing
CommandExecute ==
    /\ parsed # <<>>
    /\ parsed[1].command # NoCommand
    /\ execs = <<>>
    /\ outputs = <<>>
    /\ LET command == parsed[1].command
           args == parsed[1].args
       IN  IF CommandIsLocal(command, args)
           THEN /\ outputs' = <<[of |-> "command", index |-> 0, out |-> LocalOutput(command)]>>
                /\ UNCHANGED <<execs, loads>>
           ELSE IF command = Name_refreshSchema
           THEN /\ LoadSchema("refresh")
                /\ outputs' = outputs
           ELSE /\ execs' = <<ExecStart("command", CommandSql(command, args))>>
                /\ UNCHANGED <<outputs, loads>>
    /\ UNCHANGED <<sessionVars, request, parsed, schemaCache, observed>>

\* what becomes of a resumed await whose result is formatted: the text is
\* printed by console.log, or formatTable throws and the promise of handleLine,
\* which nothing catches or awaits, is rejected with nothing printed
Printing(i, of) ==
    IF FormatThrows(execs[i].result)
    THEN [of |-> "rejected", index |-> i, out |-> "TypeError"]
    ELSE [of |-> of, index |-> i, out |-> FormatResult(execs[i].result)]

\* the command's await of client.execute resumes: it returns the formatted result
CommandReturn(i) ==
    /\ i \in 1..Len(execs)
    /\ execs[i].owner = "command"
    /\ execs[i].phase = "settled"
    /\ ~execs[i].taken
    /\ execs' = [execs EXCEPT ![i].taken = TRUE]
    /\ outputs' = Append(outputs, Printing(i, "command"))
    /\ UNCHANGED <<sessionVars, request, parsed, schemaVars>>

\* executeCommand's await of client.execute resumes for a SQL unit: lines 135-136
UnitReturn(i) ==
    /\ i \in 1..Len(execs)
    /\ execs[i].owner = "caller"
    /\ execs[i].phase = "settled"
    /\ ~execs[i].taken
    /\ execs' = [execs EXCEPT ![i].taken = TRUE]
    /\ outputs' = Append(outputs, Printing(i, "unit"))
    /\ UNCHANGED <<sessionVars, request, parsed, schemaVars>>

\* ----------------------------------------------------------- specification

Init ==
    /\ isMultiline = FALSE
    /\ multilineBuffer = <<>>
    /\ prompt = Primary
    /\ historyFile \in InitialFiles
    /\ history = HistoryLoad(historyFile)
    /\ closed = FALSE
    /\ calls = <<>>
    /\ printed = <<>>
    /\ input = <<>>
    /\ mlStart = 0
    /\ lastEvent = "start"
    /\ request = <<>>
    /\ parsed = <<>>
    /\ execs = <<>>
    /\ outputs = <<>>
    /\ schemaCache = EmptyCache
    /\ loads = <<>>
    /\ observed = EmptyCache

Next ==
    \/ \E line \in Lines : HandleLine(line)
    \/ Sigint
    \/ EndOfInput
    \/ \E i \in 1..MaxInput, ok \in BOOLEAN : FetchResolve(i, ok)
    \/ \E i \in 1..MaxInput : FetchReject(i)
    \/ \E i \in 1..MaxInput : TimerFire(i)
    \/ \E i \in 1..MaxInput : BodyDone(i)
    \/ \E i \in 1..MaxInput : BodyFail(i)

Spec == Init /\ [][Next]_vars

\* The abort timer of a pending fetch fires once its delay has passed; the
\* endpoint and the network owe the client nothing.
FairSpec == Spec /\ \A i \in 1..MaxInput : WF_vars(TimerFire(i))

\* the session before its first line, as far as the client API is concerned
SessionIdle ==
    /\ isMultiline = FALSE
    /\ multilineBuffer = <<>>
    /\ prompt = Primary
    /\ historyFile = <<>>
    /\ history = <<>>
    /\ closed = FALSE
    /\ calls = <<>>
    /\ printed = <<>>
    /\ input = <<>>
    /\ mlStart = 0
    /\ lastEvent = "start"

\* the events of the endpoint and the network on the execute calls in flight
ExecNext ==
    \/ \E i \in 1..Len(execs), status \in Statuses : ExecFetchResolve(i, status)
    \/ \E i \in 1..Len(execs), message \in FailureMessages : ExecFetchReject(i, message)
    \/ \E i \in 1..Len(execs) : ExecTimerFire(i)
    \/ \E i \in 1..Len(execs), errorText \in ErrorTexts : ExecText(i, errorText)
    \/ \E i \in 1..Len(execs), data \in JsonBodies : ExecJson(i, data)
    \/ \E i \in 1..Len(execs), message \in FailureMessages : ExecBodyFail(i, message)

\* the steps of loadSchema after its await, and of its caller
LoadNext ==
    \/ \E l \in 1..Len(loads) : LoadResume(l)
    \/ \E l \in 1..Len(loads) : LoopStep(l)
    \/ \E l \in 1..Len(loads) : LoopEnd(l)
    \/ \E l \in 1..Len(loads) : LoadInstall(l)
    \/ \E l \in 1..Len(loads) : LoadReturn(l)
    \/ GetSchemaCache

\* One invocation of the client API: client.execute(text), or parseCommand(text)
\* followed by the command's execute.
ApiInit ==
    /\ SessionIdle
    /\ request \in { <<r>> : r \in Requests }
    /\ parsed = <<>>
    /\ execs = <<>>
    /\ outputs = <<>>
    /\ schemaCache = EmptyCache
    /\ loads = <<>>
    /\ observed = EmptyCache

ApiNext ==
    \/ ClientExecute
    \/ ParseCommand
    \/ CommandExecute
    \/ \E i \in 1..Len(execs) : CommandReturn(i)
    \/ \E i \in 1..Len(execs) : UnitReturn(i)
    \/ ExecNext
    \/ LoadNext

ApiSpec == ApiInit /\ [][ApiNext]_vars

\* The schema cache under the load of start() and the refreshes that follow,
\* with the completer reading at any time.
LoadInit ==
    /\ SessionIdle
    /\ request = <<>>
    /\ parsed = <<>>
    /\ execs = <<>>
    /\ outputs = <<>>
    /\ schemaCache = EmptyCache
    /\ loads = <<>>
    /\ observed = EmptyCache

LoadSpecNext ==
    \/ StartLoad
    \/ RefreshLoad
    \/ ExecNext
    \/ LoadNext

LoadSpec == LoadInit /\ [][LoadSpecNext]_vars

\* the rows a metadata query may return, with "" for a missing field
RowSet ==
    { Row("t", "a", "", ""), Row("t", "b", "", ""), Row("", "", "T", "a"),
      Row("u", "", "", "a"), Row("t", "", "", ""), Row("", "", "", "b") }

SeqsUpTo(S, n) == UNION { [1..m -> S] : m \in 0..n }

\* One loadSchema whose metadata query has been answered with rows, from the
\* resumption of its await to its return.
BuildInit ==
    /\ SessionIdle
    /\ request = <<>>
    /\ parsed = <<>>
    /\ outputs = <<>>
    /\ schemaCache = EmptyCache
    /\ observed = EmptyCache
    /\ \E rows \in SeqsUpTo(RowSet, MaxRows) :
          /\ execs = << [ExecStart("load", CommandSql(Name_refreshSchema, <<>>)) EXCEPT
                            !.phase = "settled", !.timer = FALSE, !.status = 200,
                            !.outcome = "ok", !.settled = "resolved",
                            !.result = ExecuteOk(Json(Some(rows), Absent, Absent, Absent))] >>
          /\ loads = << [caller |-> "start", exec |-> 1, pc |-> "await", rows |-> <<>>,
                         k |-> 1, cache |-> EmptyCache, tableSet |-> <<>>,
                         columnSet |-> <<>>] >>

BuildSpec == BuildInit /\ [][LoadNext]_vars

\* ----------------------------------------------------------- formatter.ts

\* a value of a row object: its typeof (or "null") and what toString() gives
Value(type, text) == [type |-> type, text |-> text]

\* row[h] for a key the row does not have
Undefined == Value("undefined", "")

\* a piece of terminal text and the chalk style it is written in
Styled(style, text) == [style |-> style, text |-> text]

\* what a formatter returns: the cli-table3 table, if one is drawn, and the
\* pieces of text around it
Rendering(table, text) == [table |-> table, text |-> text]

\* formatValue, lines 52-63
formatValue(value) ==
    IF value.type \in {"null", "undefined"} THEN Styled("gray", "NULL")
    ELSE IF value.type = "boolean"
    THEN IF value.text = "true" THEN Styled("green", "true") ELSE Styled("red", "false")
    ELSE IF value.type = "number" THEN Styled("yellow", value.text)
    ELSE Styled("", value.text)

\* Object.keys(row): a row object is the sequence of its properties
Keys(row) == [i \in 1..Len(row) |-> row[i].key]

\* row[h]
Get(row, h) ==
    IF \E i \in 1..Len(row) : row[i].key = h
    THEN row[CHOOSE i \in 1..Len(row) : row[i].key = h].value
    ELSE Undefined

\* formatTable with the footer always in the plural
formatTablePlural(rows) ==
    IF rows = <<>>
    THEN Rendering(Absent, <<Styled("yellow", "(0 rows)")>>)
    ELSE LET headers == Keys(rows[1])
         IN  Rendering(
                 Some([head |-> [j \in 1..Len(headers) |-> Styled("cyan", headers[j])],
                       body |-> [i \in 1..Len(rows) |->
                                    [j \in 1..Len(headers) |->
                                        formatValue(Get(rows[i], headers[j]))]]]),
                 <<Styled("gray", "(" \o ToString(Len(rows)) \o " rows" \o ")")>>)

\* formatTable, lines 27-50
formatTable(rows) ==
    IF rows = <<>>
    THEN Rendering(Absent, <<Styled("yellow", "(0 rows)")>>)
    ELSE LET headers == Keys(rows[1])
         IN  Rendering(
                 Some([head |-> [j \in 1..Len(headers) |-> Styled("cyan", headers[j])],
                       body |-> [i \in 1..Len(rows) |->
                                    [j \in 1..Len(headers) |->
                                        formatValue(Get(rows[i], headers[j]))]]]),
                 <<Styled("gray", "(" \o ToString(Len(rows)) \o " row"
                                      \o (IF Len(rows) # 1 THEN "s" ELSE "") \o ")")>>)

\* formatError, lines 65-67 (the text without its leading mark)
formatError(error) == Rendering(Absent, <<Styled("red", "Error: "), Styled("", error)>>)

\* formatSuccess, lines 69-71 (the text without its leading mark)
formatSuccess(message) == Rendering(Absent, <<Styled("green", ""), Styled("", message)>>)

\* formatResult testing rows before error
formatResultRowsFirst(result) ==
    IF result.rows # Absent THEN formatTable(result.rows[1])
    ELSE IF result.error # Absent /\ result.error[1] # "" THEN formatError(result.error[1])
    ELSE IF result.affectedRows # Absent
    THEN formatSuccess(ToString(result.affectedRows[1]) \o " "
                           \o (IF result.affectedRows[1] = 1 THEN "row" ELSE "rows")
                           \o " affected")
    ELSE Rendering(Absent, <<Styled("gray", "Query executed successfully")>>)

\* formatResult, lines 73-88; `if (result.error)` is false for an empty string
formatResult(result) ==
    IF result.error # Absent /\ result.error[1] # "" THEN formatError(result.error[1])
    ELSE IF result.rows # Absent THEN formatTable(result.rows[1])
    ELSE IF result.affectedRows # Absent
    THEN formatSuccess(ToString(result.affectedRows[1]) \o " "
                           \o (IF result.affectedRows[1] = 1 THEN "row" ELSE "rows")
                           \o " affected")
    ELSE Rendering(Absent, <<Styled("gray", "Query executed successfully")>>)

\* how many rows a result handed to the formatter holds
MaxFormatRows == 2

\* the row objects of the results handed to the formatter
FormatRowSet ==
    { << [key |-> "id", value |-> Value("number", "1")],
         [key |-> "name", value |-> Value("string", "Alice")] >>,
      << [key |-> "id", value |-> Value("number", "2")],
         [key |-> "name", value |-> Value("null", "")] >>,
      << [key |-> "name", value |-> Value("boolean", "true")] >> }

\* the results handed to formatResult
FormatResults ==
    [ rows : {Absent} \cup { Some(rows) : rows \in SeqsUpTo(FormatRowSet, MaxFormatRows) },
      affectedRows : {Absent, Some(0), Some(1), Some(5)},
      error : {Absent, Some(""), Some("Parse error")},
      metadata : {Absent} ]

\* a caller invokes ResultFormatter.formatResult(result)
Format ==
    /\ request # <<>>
    /\ request[1].kind = "format"
    /\ outputs = <<>>
    /\ outputs' = <<[of |-> "format", index |-> 0, out |-> formatResult(request[1].result)]>>
    /\ UNCHANGED <<sessionVars, request, parsed, execs, schemaVars>>

FormatInit ==
    /\ SessionIdle
    /\ request \in { <<[kind |-> "format", result |-> r]>> : r \in FormatResults }
    /\ parsed = <<>>
    /\ execs = <<>>
    /\ outputs = <<>>
    /\ schemaCache = EmptyCache
    /\ loads = <<>>
    /\ observed = EmptyCache

FormatSpec == FormatInit /\ [][Format]_vars

\* ---------------------------------------------------- index.ts: completer

UpperCase == <<"A", "B", "C", "D", "E", "F", "G", "H", "I", "J", "K", "L", "M", "N", "O", "P", "Q", "R", "S", "T", "U", "V", "W", "X", "Y", "Z">>

LowerCase == <<"a", "b", "c", "d", "e", "f", "g", "h", "i", "j", "k", "l", "m", "n", "o", "p", "q", "r", "s", "t", "u", "v", "w", "x", "y", "z">>

\* String.prototype.toLowerCase
toLowerCase(s) ==
    [i \in 1..Len(s) |->
        IF \E k \in 1..Len(UpperCase) : UpperCase[k] = s[i]
        THEN LowerCase[CHOOSE k \in 1..Len(UpperCase) : UpperCase[k] = s[i]]
        ELSE s[i]]

\* String.prototype.toUpperCase
toUpperCase(s) ==
    [i \in 1..Len(s) |->
        IF \E k \in 1..Len(LowerCase) : LowerCase[k] = s[i]
        THEN UpperCase[CHOOSE k \in 1..Len(LowerCase) : LowerCase[k] = s[i]]
        ELSE s[i]]

\* String.prototype.startsWith(prefix)
StartsWithText(s, prefix) ==
    Len(prefix) <= Len(s) /\ SubSeq(s, 1, Len(prefix)) = prefix

\* String.prototype.includes(c) for one character
Includes(s, c) == \E i \in 1..Len(s) : s[i] = c

\* String.prototype.lastIndexOf(c), counted from 1
LastIndexOf(s, c) == CHOOSE i \in 1..Len(s) : s[i] = c /\ \A j \in (i + 1)..Len(s) : s[j] # c

\* the characters of a table or column name of the schema cache
Chars(name) ==
    CASE name = "users" -> <<"u", "s", "e", "r", "s">>
      [] name = "Users" -> <<"U", "s", "e", "r", "s">>
      [] name = "Orders" -> <<"O", "r", "d", "e", "r", "s">>
      [] name = "id" -> <<"i", "d">>
      [] name = "ID" -> <<"I", "D">>
      [] name = "name" -> <<"n", "a", "m", "e">>
      [] name = "email" -> <<"e", "m", "a", "i", "l">>
      [] name = "t" -> <<"t">>
      [] name = "a.b" -> <<"a", ".", "b">>

CharsOf(names) == [i \in 1..Len(names) |-> Chars(names[i])]

\* the candidates left unfiltered
FilterNothing(names, prefix) == names

\* filter((c) => c.toLowerCase().startsWith(prefix.toLowerCase()))
RECURSIVE FilterStartsWith(_, _)
FilterStartsWith(names, prefix) ==
    IF names = <<>> THEN <<>>
    ELSE (IF StartsWithText(toLowerCase(Head(names)), toLowerCase(prefix))
          THEN <<Head(names)>> ELSE <<>>) \o FilterStartsWith(Tail(names), prefix)

\* lines 209-211 comparing the names as they are written
CommandMatchesCaseSensitive(trimmed) ==
    SelectSeq(specialCommands, LAMBDA name : StartsWithText(name, trimmed))

\* lines 209-211
CommandMatches(trimmed) == FilterStartsWith(specialCommands, trimmed)

\* lines 228-243 prefixing the candidates with the cached table name
QualifiedMatchesCachedName(lastWord, cache) ==
    LET dotIndex == LastIndexOf(lastWord, ".")
        tablePart == SubSeq(lastWord, 1, dotIndex - 1)
        columnPart == SubSeq(lastWord, dotIndex + 1, Len(lastWord))
        found == { i \in 1..Len(cache.columns) :
                       toLowerCase(Chars(cache.columns[i].table)) = toLowerCase(tablePart) }
    IN  IF found = {} THEN Absent
        ELSE LET tableKey == CHOOSE i \in found : \A j \in found : i <= j
                 kept == FilterStartsWith(CharsOf(cache.columns[tableKey].cols), columnPart)
             IN  Some([i \in 1..Len(kept) |->
                          Chars(cache.columns[tableKey].table) \o <<".">> \o kept[i]])

\* lines 228-243: the candidates for a last word that names a cached table
\* before its last ".", or nothing when no table is found
QualifiedMatches(lastWord, cache) ==
    LET dotIndex == LastIndexOf(lastWord, ".")
        tablePart == SubSeq(lastWord, 1, dotIndex - 1)
        columnPart == SubSeq(lastWord, dotIndex + 1, Len(lastWord))
        found == { i \in 1..Len(cache.columns) :
                       toLowerCase(Chars(cache.columns[i].table)) = toLowerCase(tablePart) }
    IN  IF found = {} THEN Absent
        ELSE LET tableKey == CHOOSE i \in found : \A j \in found : i <= j
                 kept == FilterStartsWith(CharsOf(cache.columns[tableKey].cols), columnPart)
             IN  Some([i \in 1..Len(kept) |-> tablePart \o <<".">> \o kept[i]])

\* line 250
TableKeywords ==
    { <<"F", "R", "O", "M">>, <<"J", "O", "I", "N">>, <<"I", "N", "T", "O">>,
      <<"U", "P", "D", "A", "T", "E">>, <<"T", "A", "B", "L", "E">> }

\* lines 252-254 filtering the columns as well
TableMatchesWithColumns(lastWord, cache) ==
    FilterStartsWith(CharsOf(cache.tables \o cache.allColumns), lastWord)

\* lines 252-254
TableMatches(lastWord, cache) == FilterStartsWith(CharsOf(cache.tables), lastWord)

\* [...new Set(array)]
RECURSIVE Unique(_)
Unique(ss) ==
    IF ss = <<>> THEN <<>>
    ELSE SetAdd(Unique(SubSeq(ss, 1, Len(ss) - 1)), ss[Len(ss)])

\* lines 259-265 without the Set
DefaultMatchesWithDuplicates(lastWord, cache) ==
    FilterStartsWith(CharsOf(cache.tables \o cache.allColumns), lastWord)

\* lines 259-265
DefaultMatches(lastWord, cache) ==
    Unique(FilterStartsWith(CharsOf(cache.tables \o cache.allColumns), lastWord))

\* completer, lines 204-268, reading the cache getSchemaCache returns
completer(line, cache) ==
    LET trimmed == TrimStart(line)
    IN  IF StartsWith(trimmed, ".")
        THEN [matches |-> CommandMatches(trimmed), substring |-> trimmed]
        ELSE LET words == SplitWs(trimmed)
                 lastWord == words[Len(words)]
                 prevWord == IF Len(words) > 1 THEN toUpperCase(words[Len(words) - 1])
                                               ELSE <<>>
                 qualified == IF Includes(lastWord, ".")
                              THEN QualifiedMatches(lastWord, cache) ELSE Absent
             IN  IF lastWord = <<>>
                 THEN [matches |-> <<>>, substring |-> <<>>]
                 ELSE IF qualified # Absent
                 THEN [matches |-> qualified[1], substring |-> lastWord]
                 ELSE IF prevWord \in TableKeywords
                 THEN [matches |-> TableMatches(lastWord, cache), substring |-> lastWord]
                 ELSE [matches |-> DefaultMatches(lastWord, cache), substring |-> lastWord]

\* the lines the terminal may ask completions for
CompleterLines ==
    {
      <<>>,
      <<" ", " ">>,
      <<".", "h">>,
      <<".", "S", "C", "H", "E">>,
      <<" ", ".", "h", "e", "l", "p", " ">>,
      <<".", "d", "e", "s", "c", "r", "i", "b", "e", " ", "u", "s", "e", "r", "s", ".", "n">>,
      <<"S", "E", "L", "E", "C", "T", " ", "u", "s", "e", "r", "s", ".">>,
      <<"S", "E", "L", "E", "C", "T", " ", "u", "s", "e", "r", "s", ".", "n">>,
      <<"S", "E", "L", "E", "C", "T", " ", "U", "S", "E", "R", "S", ".", "i">>,
      <<"S", "E", "L", "E", "C", "T", " ", "x", ".">>,
      <<"S", "E", "L", "E", "C", "T", " ", "a", ".">>,
      <<"S", "E", "L", "E", "C", "T", " ", "*", " ", "F", "R", "O", "M", " ", "u">>,
      <<"S", "E", "L", "E", "C", "T", " ", "*", " ", "F", "R", "O", "M", " ", "u", "s", "e", "r", "s", ".", "n">>,
      <<"f", "r", "o", "m", "\t", "U">>,
      <<"S", "E", "L", "E", "C", "T", " ", "*", " ", "F", "R", "O", "M", " ">>,
      <<"U", "P", "D", "A", "T", "E", " ", "O">>,
      <<"S", "E", "L", "E", "C", "T", " ", "*", " ", "F", "R", "O", "M", " ", "u", "s", "e", "r", "s", " ", "J", "O", "I", "N", " ", "o">>,
      <<"I", "N", "S", "E", "R", "T", " ", "I", "N", "T", "O", " ", "u">>,
      <<"C", "R", "E", "A", "T", "E", " ", "T", "A", "B", "L", "E", " ", "t">>,
      <<"S", "E", "L", "E", "C", "T", " ", "u">>,
      <<"S", "E", "L", "E", "C", "T", " ", "I">>,
      <<"S", "E", "L", "E", "C", "T", " ", "i">>,
      <<"u">>,
      <<"S", "E", "L", "E", "C", "T", " ", "t", ".", "a">>,
      <<".", " ", "F", "R", "O", "M", " ", "u">>,
      <<"S", "E", "L", "E", "C", "T", " ", "n">>,
      <<"U", "P", "D", "A", "T", "E", "\t">>,
      <<"S", "E", "L", "E", "C", "T", " ", "u", "s", "e", "r", "s", ".", " ">>,
      <<"C", "R", "E", "A", "T", "E", " ", "T", "A", "B", "L", "E", " ", "u", " ", " ">> }

\* the metadata the cache may have been loaded from
CompleterRows ==
    { <<>>,
      << Row("users", "id", "", ""), Row("users", "name", "", ""),
         Row("users", "email", "", "") >>,
      << Row("Orders", "ID", "", ""), Row("Orders", "users", "", ""),
         Row("users", "id", "", ""), Row("users", "id", "", "") >>,
      << Row("Users", "name", "", ""), Row("users", "email", "", "") >>,
      << Row("t", "a.b", "", ""), Row("t", "id", "", "") >> }

\* the terminal asks for the completions of the line typed so far
Complete ==
    /\ request # <<>>
    /\ request[1].kind = "complete"
    /\ \A o \in 1..Len(outputs) : outputs[o].of # "completer"
    /\ outputs' = Append(outputs, [of |-> "completer", index |-> 0, cache |-> schemaCache,
                                   out |-> completer(request[1].text, schemaCache)])
    /\ UNCHANGED <<sessionVars, request, parsed, execs, schemaVars>>

\* One completion request, made at any moment of a loadSchema whose metadata
\* query has been answered.
CompleteInit ==
    /\ SessionIdle
    /\ request \in { <<[kind |-> "complete", text |-> line]>> : line \in CompleterLines }
    /\ parsed = <<>>
    /\ outputs = <<>>
    /\ schemaCache = EmptyCache
    /\ observed = EmptyCache
    /\ \E rows \in CompleterRows :
          /\ execs = << [ExecStart("load", CommandSql(Name_refreshSchema, <<>>)) EXCEPT
                            !.phase = "settled", !.timer = FALSE, !.status = 200,
                            !.outcome = "ok", !.settled = "resolved",
                            !.result = ExecuteOk(Json(Some(rows), Absent, Absent, Absent))] >>
          /\ loads = << [caller |-> "start", exec |-> 1, pc |-> "await", rows |-> <<>>,
                         k |-> 1, cache |-> EmptyCache, tableSet |-> <<>>,
                         columnSet |-> <<>>] >>

CompleteNext ==
    \/ Complete
    \/ LoadNext

CompleteSpec == CompleteInit /\ [][CompleteNext]_vars

\* ------------------------------------------- history.ts: a History object

\* the largest maxSize a History is constructed with
MaxHistorySize == 2

\* how many entries a History is made to hold by add
MaxAdds == 3

\* the statements handed to add: single lines and one assembled from two
HistoryCommands ==
    { <<"a">>, <<" ", "a", " ">>, <<"b", ";">>, <<" ">>, <<"a", NL, "b", ";">> }

\* History.save of an object constructed with maxSize = max
HistorySaveMax(h, max) == JoinNL(LastN(h, max))

\* history.add(command)
HistoryAddCommand(command) ==
    /\ request # <<>>
    /\ request[1].kind = "history"
    /\ Len(history) < MaxAdds
    /\ history' = HistoryAdd(history, command)
    /\ request' = <<[request[1] EXCEPT !.op = "add", !.command = command]>>
    /\ UNCHANGED <<isMultiline, multilineBuffer, prompt, historyFile, closed,
                   calls, printed, input, mlStart, lastEvent,
                   parsed, execs, outputs, schemaVars>>

\* history.save()
HistorySaveFile ==
    /\ request # <<>>
    /\ request[1].kind = "history"
    /\ historyFile' = HistorySaveMax(history, request[1].maxSize)
    /\ request' = <<[request[1] EXCEPT !.op = "save", !.command = <<>>]>>
    /\ UNCHANGED <<isMultiline, multilineBuffer, prompt, history, closed,
                   calls, printed, input, mlStart, lastEvent,
                   parsed, execs, outputs, schemaVars>>

\* the next run constructs its History: the constructor loads the file
HistoryReload ==
    /\ request # <<>>
    /\ request[1].kind = "history"
    /\ history' = HistoryLoad(historyFile)
    /\ request' = <<[request[1] EXCEPT !.op = "load", !.command = <<>>]>>
    /\ UNCHANGED <<isMultiline, multilineBuffer, prompt, historyFile, closed,
                   calls, printed, input, mlStart, lastEvent,
                   parsed, execs, outputs, schemaVars>>

\* new History(maxSize)
HistoryInit ==
    /\ isMultiline = FALSE
    /\ multilineBuffer = <<>>
    /\ prompt = Primary
    /\ historyFile \in InitialFiles
    /\ history = HistoryLoad(historyFile)
    /\ closed = FALSE
    /\ calls = <<>>
    /\ printed = <<>>
    /\ input = <<>>
    /\ mlStart = 0
    /\ lastEvent = "start"
    /\ request \in { <<[kind |-> "history", maxSize |-> n, op |-> "new", command |-> <<>>]>> :
                        n \in 1..MaxHistorySize }
    /\ parsed = <<>>
    /\ execs = <<>>
    /\ outputs = <<>>
    /\ schemaCache = EmptyCache
    /\ loads = <<>>
    /\ observed = EmptyCache

HistoryNext ==
    \/ \E command \in HistoryCommands : HistoryAddCommand(command)
    \/ HistorySaveFile
    \/ HistoryReload

HistorySpec == HistoryInit /\ [][HistoryNext]_vars

\* ------------------------------- index.ts: completions during a session

\* how many completion requests a session's run records
MaxCompletions == 2

\* the cache start() leaves behind: empty when the load is skipped or fails,
\* else what loadSchema installed
StartupCaches ==
    { EmptyCache,
      [tables |-> <<"users">>,
       columns |-> << [table |-> "users", cols |-> <<"id", "name", "email">>] >>,
       allColumns |-> <<"id", "name", "email">>] }

\* the lines TAB is pressed on
TypedLines ==
    { <<".", "h">>, <<"u">> }

\* the completer handed the pending statement together with the line
TabCompleteWholeStatement(line) ==
    /\ ~closed
    /\ Len(outputs) < MaxCompletions
    /\ outputs' = Append(outputs,
                         [of |-> "completer", index |-> 0, line |-> line,
                          multiline |-> isMultiline, cache |-> schemaCache,
                          out |-> completer(AppendLine(multilineBuffer, line), schemaCache)])
    /\ UNCHANGED <<sessionVars, request, parsed, execs, schemaVars>>

\* readline calls the completer registered at line 46 with the line typed so
\* far; the entry records the state it was asked in
TabComplete(line) ==
    /\ ~closed
    /\ Len(outputs) < MaxCompletions
    /\ outputs' = Append(outputs,
                         [of |-> "completer", index |-> 0, line |-> line,
                          multiline |-> isMultiline, cache |-> schemaCache,
                          out |-> completer(line, schemaCache)])
    /\ UNCHANGED <<sessionVars, request, parsed, execs, schemaVars>>

\* A session without a history file whose user presses TAB between lines and
\* interrupts; the remote calls stay in flight.
TypingInit ==
    /\ isMultiline = FALSE
    /\ multilineBuffer = <<>>
    /\ prompt = Primary
    /\ historyFile = <<>>
    /\ history = <<>>
    /\ closed = FALSE
    /\ calls = <<>>
    /\ printed = <<>>
    /\ input = <<>>
    /\ mlStart = 0
    /\ lastEvent = "start"
    /\ request = <<>>
    /\ parsed = <<>>
    /\ execs = <<>>
    /\ outputs = <<>>
    /\ schemaCache \in StartupCaches
    /\ loads = <<>>
    /\ observed = EmptyCache

TypingNext ==
    \/ \E line \in Lines : HandleLine(line)
    \/ Sigint
    \/ EndOfInput
    \/ \E line \in TypedLines : TabComplete(line)

TypingSpec == TypingInit /\ [][TypingNext]_vars

\* ----------------------------------- execute-sql.ts: the web trigger

\* the three builds of executeSql the package holds
Build_ts == "src/execute-sql.ts"
Build_esm == "templates/execute-sql.js (ESM)"
Build_cjs == "templates/execute-sql.js (CommonJS)"

Builds == { Build_ts, Build_esm, Build_cjs }

\* getAppContext()?.environmentType, "" when there is no context
Environments == { "PRODUCTION", "STAGING", "DEVELOPMENT", "" }

\* the request bodies a caller may post
Payloads ==
    { "", "null", "{}", "{\"query\":\"\"}", "{\"query\":\"SELECT 1\"}",
      "{\"query\":\"DROP TABLE t\"}" }

\* JSON.parse(payload) followed by sqlRequest?.query: ok is false when
\* JSON.parse throws, query is Absent when the parsed value has none
ParseQuery(payload) ==
    CASE payload = "" -> [ok |-> FALSE, query |-> Absent]
      [] payload = "null" -> [ok |-> TRUE, query |-> Absent]
      [] payload = "{}" -> [ok |-> TRUE, query |-> Absent]
      [] payload = "{\"query\":\"\"}" -> [ok |-> TRUE, query |-> Some("")]
      [] payload = "{\"query\":\"SELECT 1\"}" -> [ok |-> TRUE, query |-> Some("SELECT 1")]
      [] payload = "{\"query\":\"DROP TABLE t\"}" -> [ok |-> TRUE, query |-> Some("DROP TABLE t")]

\* the production guard: only the CommonJS build has one
GuardsProduction(build) == build = Build_cjs

\* getHttpResponse: the status text of the build's table, "Bad Request" for a
\* code the table lacks
getHttpResponse(build, statusCode, success, error, query) ==
    [of |-> "response",
     statusCode |-> statusCode,
     statusText |-> CASE statusCode = 200 -> "OK"
                      [] statusCode = 400 -> "Bad Request"
                      [] statusCode = 403 /\ build = Build_cjs -> "Forbidden"
                      [] statusCode = 404 -> "Not Found"
                      [] statusCode = 500 -> "Internal Server Error"
                      [] OTHER -> "Bad Request",
     success |-> success,
     error |-> error,
     query |-> query]

\* what sql.executeRaw may throw: an Error or a string
RawFailures == { "ER_PARSE_ERROR", "timeout" }

\* the web trigger request being served
Trigger == request[1]

Responded == \E o \in 1..Len(outputs) : outputs[o].of = "response"

RawPending ==
    /\ \E o \in 1..Len(outputs) : outputs[o].of = "executeRaw"
    /\ ~Responded

\* executeSql from its entry to its first return or to `await sql.executeRaw`
ExecuteSql ==
    /\ request # <<>>
    /\ Trigger.kind = "webtrigger"
    /\ outputs = <<>>
    /\ LET p == ParseQuery(Trigger.body)
       IN  outputs' =
             IF GuardsProduction(Trigger.build) /\ Trigger.environment = "PRODUCTION"
             THEN << getHttpResponse(Trigger.build, 403, FALSE,
                        Some("executeSql is disabled in PRODUCTION for security."), Absent) >>
             ELSE IF ~p.ok
             THEN << getHttpResponse(Trigger.build, 500, FALSE,
                        Some("Unexpected end of JSON input"), Absent) >>
             ELSE IF p.query = Absent \/ p.query = Some("")
             THEN << getHttpResponse(Trigger.build, 400, FALSE,
                        Some("No SQL query provided"), Absent) >>
             ELSE << [of |-> "executeRaw", query |-> p.query[1]] >>
    /\ UNCHANGED <<sessionVars, request, parsed, execs, schemaVars>>

\* sql.executeRaw resolves: lines 28-35
RawResolve ==
    /\ request # <<>>
    /\ Trigger.kind = "webtrigger"
    /\ RawPending
    /\ outputs' = Append(outputs,
                         getHttpResponse(Trigger.build, 200, TRUE, Absent,
                                         Some(outputs[1].query)))
    /\ UNCHANGED <<sessionVars, request, parsed, execs, schemaVars>>

\* sql.executeRaw rejects: the catch of lines 36-47
RawReject(failure) ==
    /\ request # <<>>
    /\ Trigger.kind = "webtrigger"
    /\ RawPending
    /\ outputs' = Append(outputs,
                         getHttpResponse(Trigger.build, 500, FALSE, Some(failure),
                                         Some(outputs[1].query)))
    /\ UNCHANGED <<sessionVars, request, parsed, execs, schemaVars>>

\* One web trigger request, to any build, in any environment.
TriggerInit ==
    /\ SessionIdle
    /\ request \in { <<[kind |-> "webtrigger", build |-> b, environment |-> e, body |-> p]>> :
                         b \in Builds, e \in Environments, p \in Payloads }
    /\ parsed = <<>>
    /\ execs = <<>>
    /\ outputs = <<>>
    /\ schemaCache = EmptyCache
    /\ loads = <<>>
    /\ observed = EmptyCache

TriggerNext ==
    \/ ExecuteSql
    \/ RawResolve
    \/ \E failure \in RawFailures : RawReject(failure)

TriggerSpec == TriggerInit /\ [][TriggerNext]_vars

\* ------------------------------------------------------------------ claims

Last(ss) == ss[Len(ss)]

\* the trimmed text of the line a "line" step delivers
Delivered == Trim(Last(input'))

LineStep == input' # input

ExitTokens == {Tok_exit, Tok_quit, Tok_dotexit}

RECURSIVE TrimAll(_)
TrimAll(ss) == IF ss = <<>> THEN <<>> ELSE <<Trim(Head(ss))>> \o TrimAll(Tail(ss))

InFlight(i) == i \in 1..Len(calls) /\ calls[i].phase # "done"

\* C1: in SINGLE state a non-empty line, not an exit token, that neither ends
\* with ";" nor starts with "." moves the session to MULTILINE with the buffer
\* equal to the trimmed line; no call is issued, nothing is printed and the
\* history is left as it was.
C1_UnterminatedLineEntersMultiline ==
    [][(LineStep /\ ~isMultiline /\ Delivered # <<>> /\ Delivered \notin ExitTokens
            /\ Last(Delivered) # ";" /\ Head(Delivered) # ".")
        => /\ isMultiline'
           /\ multilineBuffer' = Delivered
           /\ calls' = calls
           /\ printed' = printed
           /\ history' = history
           /\ ~closed']_vars

C1_Witness ==
    /\ lastEvent = "line"
    /\ isMultiline
    /\ mlStart = Len(input)
    /\ Last(input) = <<" ", "a", " ">>
    /\ multilineBuffer = <<"a">>
    /\ calls = <<>>
    /\ printed = <<>>

\* C2 as stated: the text dispatched by a terminating line in MULTILINE is the
\* newline-joined concatenation of all trimmed lines from the entering line on.
C2_DispatchedIsJoinOfAllLines ==
    [][(LineStep /\ isMultiline /\ Delivered # <<>> /\ Last(Delivered) = ";")
        => /\ Len(calls') = Len(calls) + 1
           /\ Last(calls').sql = JoinNL(TrimAll(SubSeq(input', mlStart, Len(input'))))]_vars

\* C2 as amended: the text dispatched is the newline-joined concatenation of
\* the non-empty trimmed lines from the entering line through the terminating
\* line, in order; blank lines in between contribute nothing.
C2_DispatchedIsJoinOfNonEmptyLines ==
    [][(LineStep /\ isMultiline /\ Delivered # <<>> /\ Last(Delivered) = ";")
        => /\ Len(calls') = Len(calls) + 1
           /\ Last(calls').sql =
                  JoinNL(FilterNonEmpty(TrimAll(SubSeq(input', mlStart, Len(input')))))]_vars

C2_Witness ==
    /\ lastEvent = "line"
    /\ input = << <<" ", "a", " ">>, <<" ">>, <<"b", ";", " ">> >>
    /\ Len(calls) = 1
    /\ calls[1].sql = <<"a", NL, "b", ";">>

\* C3: in MULTILINE state a non-empty line (not an exit token) is appended to
\* the buffer after a newline.  If it ends with ";" the whole buffer is
\* dispatched in exactly one call and is the last history entry, the buffer is
\* empty and the state is SINGLE with the primary prompt; otherwise the state
\* stays MULTILINE and nothing is dispatched, printed or recorded.
C3_MultilineAppendThenDispatchOrStay ==
    [][(LineStep /\ isMultiline /\ Delivered # <<>> /\ Delivered \notin ExitTokens)
        => LET full == multilineBuffer \o <<NL>> \o Delivered
           IN  IF Last(Delivered) = ";"
               THEN /\ Len(calls') = Len(calls) + 1
                    /\ SubSeq(calls', 1, Len(calls)) = calls
                    /\ Last(calls').sql = full
                    /\ Last(calls').phase = "fetch"
                    /\ history' # <<>> /\ Last(history') = full
                    /\ multilineBuffer' = <<>>
                    /\ ~isMultiline'
                    /\ prompt' = Primary
               ELSE /\ multilineBuffer' = full
                    /\ isMultiline'
                    /\ prompt' = prompt
                    /\ calls' = calls
                    /\ printed' = printed
                    /\ history' = history]_vars

C3_Witness ==
    /\ lastEvent = "line"
    /\ Len(input) = 3
    /\ ~isMultiline
    /\ multilineBuffer = <<>>
    /\ prompt = Primary
    /\ Len(calls) = 1
    /\ calls[1].phase = "fetch"
    /\ calls[1].sql = <<"a", NL, "a", NL, "b", ";">>
    /\ Last(history) = calls[1].sql

\* C4: in SINGLE state a line (not an exit token) ending with ";" or starting
\* with "." is dispatched at once: a dot-prefixed one to the command registry
\* (its output is printed, or the command's call is in flight), any other to
\* the remote client as typed; it is the last history entry, and the state is
\* still SINGLE with an empty buffer.
C4_CompleteUnitDispatchedInSingle ==
    [][(LineStep /\ ~isMultiline /\ Delivered # <<>> /\ Delivered \notin ExitTokens
            /\ (Last(Delivered) = ";" \/ Head(Delivered) = "."))
        => /\ IF Head(Delivered) = "."
              THEN \/ /\ calls' = calls
                      /\ Len(printed') = Len(printed) + 1
                      /\ Last(printed').unit = Delivered
                   \/ /\ printed' = printed
                      /\ Len(calls') = Len(calls) + 1
                      /\ Last(calls').unit = Delivered
                      /\ Last(calls').phase = "fetch"
              ELSE /\ printed' = printed
                   /\ Len(calls') = Len(calls) + 1
                   /\ Last(calls').sql = Delivered
                   /\ Last(calls').phase = "fetch"
           /\ history' # <<>> /\ Last(history') = Delivered
           /\ ~isMultiline'
           /\ multilineBuffer' = <<>>
           /\ ~closed']_vars

C4_Witness ==
    /\ lastEvent = "line"
    /\ ~isMultiline
    /\ multilineBuffer = <<>>
    /\ Len(input) = 2
    /\ Trim(input[1]) = <<"b", ";">>
    /\ input[2] = Name_tables
    /\ Len(calls) = 2
    /\ calls[1].sql = <<"b", ";">>
    /\ calls[2].unit = Name_tables
    /\ Last(history) = Name_tables

\* C5: no line of the multiline buffer starts with "." (a dot-prefixed line is
\* never accumulated).
C5_NoDotLineInBuffer ==
    \A k \in 1..Len(SplitOn(multilineBuffer, NL)) :
        ~StartsWith(SplitOn(multilineBuffer, NL)[k], ".")

C7_InterruptDiscardsBufferOnly ==
    [][lastEvent' = "SIGINT"
        => /\ IF isMultiline
              THEN multilineBuffer' = <<>> /\ ~isMultiline' /\ prompt' = Primary
              ELSE UNCHANGED <<isMultiline, multilineBuffer, prompt>>
           /\ UNCHANGED <<history, historyFile, input>>
           /\ Len(calls') = Len(calls)
           /\ Len(printed') = Len(printed)
           /\ ~closed']_vars

C7_Witness ==
    /\ lastEvent = "SIGINT"
    /\ input # <<>>
    /\ Trim(Last(input)) = <<"a">>
    /\ ~isMultiline
    /\ multilineBuffer = <<>>
    /\ prompt = Primary
    /\ calls = <<>>
    /\ ~closed

\* C8: no line is handled while a dispatched unit's call is still in flight.
C8_NoLineWhileInFlight ==
    [][(\E i \in 1..Len(calls) : InFlight(i)) => ~LineStep]_vars

C10_EveryCallResolves ==
    \A i \in 1..MaxInput : [](InFlight(i) => <>(~InFlight(i) \/ closed))

\* ---- claims about the client, the schema cache and the commands

\* the text line 51 builds for the statuses and bodies of the model
HttpErrorText(status, errorText) ==
    CASE status = 404 /\ errorText = "" -> "HTTP 404: "
      [] status = 404 /\ errorText = "boom" -> "HTTP 404: boom"
      [] status = 500 /\ errorText = "" -> "HTTP 500: "
      [] status = 500 /\ errorText = "boom" -> "HTTP 500: boom"
      [] OTHER -> "?"

\* C11: execute never throws or rejects: its promise, once settled, is
\* resolved; after a response that is not ok the result's error is the text
\* built from the status and the body, and after a network failure, a timeout
\* abort or a failure to decode the response the result has a non-empty error.
C11_ExecuteResolvesWithError ==
    \A i \in 1..Len(execs) :
        LET e == execs[i]
        IN  /\ e.settled # "rejected"
            /\ e.phase = "settled" => e.settled = "resolved"
            /\ e.outcome = "notok" =>
                   e.result.error = <<HttpErrorText(e.status, e.body)>>
            /\ e.outcome \in {"network", "timeout", "decode"} =>
                   /\ e.result.error # <<>>
                   /\ e.result.error[1] # ""
            /\ e.outcome = "timeout" => e.result.error = <<"Query timeout exceeded">>

C11_Witness ==
    /\ \E i \in 1..Len(execs) :
          execs[i].outcome = "network" /\ execs[i].result.error = <<"Unknown error">>

\* the last character of sql that is not white space is ";"
EndsWithSemicolon(sql) ==
    \E i \in 1..Len(sql) : sql[i] = ";" /\ \A j \in (i + 1)..Len(sql) : IsWhite(sql[j])

\* C12: every execute call issues exactly one request, and the request's query
\* is the caller's text, followed by ";" exactly when the text, surrounding
\* white space ignored, does not end with ";".
C12_OneRequestWithTerminatedQuery ==
    \A i \in 1..Len(execs) :
        /\ execs[i].requests = 1
        /\ execs[i].query = IF EndsWithSemicolon(execs[i].sql)
                            THEN execs[i].sql
                            ELSE execs[i].sql \o <<";">>

C12_Witness ==
    /\ Len(execs) = 1
    /\ execs[1].sql = <<"a", ";", " ">>
    /\ execs[1].query = <<"a", ";", " ">>
    /\ execs[1].phase = "settled"

\* ---- the cache a list of metadata rows describes

RowTable(r) == IF r.table_name = "" THEN r.TABLE_NAME ELSE r.table_name

RowColumn(r) == IF r.column_name = "" THEN r.COLUMN_NAME ELSE r.column_name

RowKept(r) == ~r.null /\ RowTable(r) # "" /\ RowColumn(r) # ""

Range(ss) == { ss[i] : i \in 1..Len(ss) }

NoDuplicates(ss) == \A i, j \in 1..Len(ss) : ss[i] = ss[j] => i = j

RECURSIVE FirstSeen(_)
FirstSeen(ss) ==
    IF ss = <<>> THEN <<>>
    ELSE LET front == FirstSeen(SubSeq(ss, 1, Len(ss) - 1))
         IN  IF Last(ss) \in Range(front) THEN front ELSE Append(front, Last(ss))

\* the table names (column = FALSE) or column names of the kept rows, in order;
\* of the rows of table `only` when it is not ""
RECURSIVE NamesOf(_, _, _)
NamesOf(rows, column, only) ==
    IF rows = <<>> THEN <<>>
    ELSE LET r == Head(rows)
             rest == NamesOf(Tail(rows), column, only)
         IN  IF RowKept(r) /\ (only = "" \/ RowTable(r) = only)
             THEN <<IF column THEN RowColumn(r) ELSE RowTable(r)>> \o rest
             ELSE rest

CacheOf(rows) ==
    LET tables == FirstSeen(NamesOf(rows, FALSE, ""))
    IN  [tables |-> tables,
         columns |-> [i \in 1..Len(tables) |->
                         [table |-> tables[i], cols |-> NamesOf(rows, TRUE, tables[i])]],
         allColumns |-> FirstSeen(NamesOf(rows, TRUE, ""))]

\* the result loadSchema l received, and its rows (<<>> when it has none)
ResultOf(l) == execs[loads[l].exec].result

ResultRows(l) == IF ResultOf(l).rows = <<>> THEN <<>> ELSE ResultOf(l).rows[1]

Installs(l) == l \in 1..Len(loads) /\ loads[l].pc = "install" /\ loads'[l].pc = "done"

Installed(l) == l \in 1..Len(loads) /\ loads[l].pc \in {"done", "returned"}

\* C13: when the metadata query of a loadSchema fails (its result carries an
\* error), the load leaves the installed cache as it was.
C13_FailedLoadKeepsCache ==
    [][ \A l \in 1..Len(loads) :
            (Installs(l) /\ ResultOf(l).error # <<>>) => schemaCache' = schemaCache ]_vars

\* C14: a loadSchema whose metadata query failed does not return normally, and
\* what its caller writes for it is a failure message.
C14_FailedLoadIsSignalled ==
    \A l \in 1..Len(loads) :
        (loads[l].pc # "await" /\ ResultOf(l).error # <<>>) =>
            /\ loads[l].pc \notin {"done", "returned"}
            /\ \A o \in 1..Len(outputs) :
                   (outputs[o].of = "load" /\ outputs[o].index = l) =>
                       outputs[o].out \in {"Failed to refresh schema: ",
                                           "Failed (autocompletion unavailable)"}

\* the caches a reader may be handed: the initial one and the one each load
\* that has installed describes
Generations == {EmptyCache} \cup { CacheOf(ResultRows(l)) : l \in { k \in 1..Len(loads) : Installed(k) } }

\* C15: whatever the interleaving of reads with loads, the module's cache and
\* what getSchemaCache returned are whole generations (the initial cache or
\* the cache some completed load describes), a read is always possible, and
\* a read returns the installed cache and changes neither the cache, the
\* loads nor the calls.
C15_ReadsSeeWholeGenerations ==
    /\ [](schemaCache \in Generations /\ observed \in Generations)
    /\ [](ENABLED GetSchemaCache)
    /\ [][ observed' # observed =>
               /\ observed' = schemaCache
               /\ UNCHANGED <<schemaCache, loads, execs>> ]_vars

C15_Witness ==
    /\ schemaCache.tables # <<>>
    /\ observed = schemaCache
    /\ \E l \in 1..Len(loads) :
          /\ loads[l].pc = "loop"
          /\ loads[l].cache.columns # <<>>
          /\ loads[l].cache # schemaCache

\* C16: a loadSchema whose query succeeded installs the cache its own rows
\* describe, whatever was installed before (the empty cache for no rows), and
\* the same cache as any earlier load that received an identical result.
C16_LoadReplacesCache ==
    [][ \A l \in 1..Len(loads) :
            (Installs(l) /\ ResultOf(l).error = <<>>) =>
                /\ schemaCache' = CacheOf(ResultRows(l))
                /\ ResultRows(l) = <<>> => schemaCache' = EmptyCache
                /\ \A m \in 1..Len(loads) :
                       (Installed(m) /\ ResultOf(m) = ResultOf(l)) =>
                           schemaCache' = loads[m].cache ]_vars

C16_Witness ==
    /\ Len(loads) = 2
    /\ Installed(1) /\ Installed(2)
    /\ loads[1].cache.tables = <<"users">>
    /\ ResultOf(2).error = <<>>
    /\ ResultOf(2).rows = << <<>> >>
    /\ schemaCache = EmptyCache

\* C17: the cache a load installs takes each row's table and column from the
\* lower-case key or else the upper-case key, leaves out every row that lacks
\* either, has no duplicate in tables nor in allColumns, and lists for each
\* table the columns of its rows in the order of the rows.
C17_CacheFromRows ==
    Installed(1) =>
        LET rows == ResultRows(1)
            kept == { i \in 1..Len(rows) : RowKept(rows[i]) }
        IN  /\ NoDuplicates(schemaCache.tables)
            /\ Range(schemaCache.tables) = { RowTable(rows[i]) : i \in kept }
            /\ NoDuplicates(schemaCache.allColumns)
            /\ Range(schemaCache.allColumns) = { RowColumn(rows[i]) : i \in kept }
            /\ { c.table : c \in Range(schemaCache.columns) } = Range(schemaCache.tables)
            /\ NoDuplicates([i \in 1..Len(schemaCache.columns) |-> schemaCache.columns[i].table])
            /\ \A c \in Range(schemaCache.columns) :
                   c.cols = NamesOf(rows, TRUE, c.table)

C17_Witness ==
    /\ Installed(1)
    /\ ResultRows(1) = << Row("", "", "T", "a"), Row("t", "", "", ""), Row("u", "", "", "a") >>
    /\ schemaCache.tables = <<"T", "u">>
    /\ schemaCache.allColumns = <<"a">>
    /\ schemaCache.columns = << [table |-> "T", cols |-> <<"a">>],
                                [table |-> "u", cols |-> <<"a">>] >>

Registry ==
    { Name_schema, Name_tables, Name_describe, Name_indexes, Name_migrations,
      Name_database, Name_refreshSchema, Name_help }

\* what the claim expects of parseCommand for a text that begins with "."
DotClassified(text, p) ==
    LET tokens == SplitWs(text)
    IN  /\ p.isSpecial
        /\ p.command = IF tokens[1] \in Registry THEN tokens[1] ELSE <<>>
        /\ p.args = JoinSp(Tail(tokens))

\* C18 as stated: parseCommand classifies every input that begins with "." as
\* special, matches its first token exactly against the registry and passes
\* the other tokens joined by single spaces; every input that does not begin
\* with "." is not special and has no command.
C18_DotPrefixClassification ==
    parsed # <<>> =>
        LET text == request[1].text
        IN  IF text # <<>> /\ text[1] = "."
            THEN DotClassified(text, parsed[1])
            ELSE ~parsed[1].isSpecial /\ parsed[1].command = <<>>

\* C18, amended: the same, decided on the input with its surrounding white
\* space removed: an input whose trimmed form begins with "." is special and
\* its tokens are those of the trimmed form; every other input is not special
\* and has no command.
C18_TrimmedDotPrefixClassification ==
    parsed # <<>> =>
        LET text == TrimEnd(TrimStart(request[1].text))
        IN  IF text # <<>> /\ text[1] = "."
            THEN DotClassified(text, parsed[1])
            ELSE ~parsed[1].isSpecial /\ parsed[1].command = <<>>

C18_Witness ==
    /\ parsed # <<>>
    /\ request[1].text = <<" ">> \o Name_help
    /\ parsed[1].isSpecial
    /\ parsed[1].command = Name_help

C20_DescribeWithoutArgsIsUsage ==
    (/\ parsed # <<>>
     /\ parsed[1].command = Name_describe
     /\ parsed[1].args = <<>>)
        => /\ execs = <<>>
           /\ loads = <<>>
           /\ outputs \in { <<>>, <<[of |-> "command", index |-> 0,
                                    out |-> "Usage: .describe <table_name>"]>> }

C20_Witness ==
    /\ request # <<>>
    /\ request[1].text = Name_describe \o <<" ">>
    /\ execs = <<>>
    /\ outputs # <<>>
    /\ outputs[1].out = "Usage: .describe <table_name>"

\* ---- claims about the formatter, the completer and the history

\* the result formatResult was given and what it returned
Formatted == outputs # <<>> /\ outputs[1].of = "format"

FooterText(n) ==
    CASE n = 0 -> "(0 rows)"
      [] n = 1 -> "(1 row)"
      [] n = 2 -> "(2 rows)"
      [] n = 3 -> "(3 rows)"
      [] OTHER -> "?"

\* C22: when rows are rendered (the result has rows and no error text), the
\* output ends with the footer for their exact number: "(0 rows)" and no table
\* for none, "(1 row)" for one, "(n rows)" for more; a table is drawn,
\* with one body line per row, whenever there is a row.
C22_FooterCountsRows ==
    (/\ Formatted
     /\ request[1].result.rows # <<>>
     /\ (request[1].result.error = <<>> \/ request[1].result.error[1] = ""))
        => LET rows == request[1].result.rows[1]
               out == outputs[1].out
           IN  /\ out.text[Len(out.text)].text = FooterText(Len(rows))
               /\ out.text[Len(out.text)].text # "(1 rows)"
               /\ rows = <<>> <=> out.table = <<>>
               /\ rows # <<>> => Len(out.table[1].body) = Len(rows)

C22_Witness ==
    /\ Formatted
    /\ request[1].result.rows # <<>>
    /\ Len(request[1].result.rows[1]) = 1
    /\ request[1].result.error = <<>>
    /\ outputs[1].out.text = <<[style |-> "gray", text |-> "(1 row)"]>>

\* the completion that was asked for: its line, the cache it read, its result
Completed == \E o \in 1..Len(outputs) : outputs[o].of = "completer"

Completion == outputs[CHOOSE o \in 1..Len(outputs) : outputs[o].of = "completer"]

TypedTokens == SplitWs(TrimStart(request[1].text))

LastToken == TypedTokens[Len(TypedTokens)]

PrevTokenUpper ==
    IF Len(TypedTokens) > 1 THEN toUpperCase(TypedTokens[Len(TypedTokens) - 1]) ELSE <<>>

IsDotLine == TrimStart(request[1].text) # <<>> /\ TrimStart(request[1].text)[1] = "."

TablePart == SubSeq(LastToken, 1, LastIndexOf(LastToken, ".") - 1)

ColumnPart == SubSeq(LastToken, LastIndexOf(LastToken, ".") + 1, Len(LastToken))

\* the entries of the cache whose table is TablePart but for the case
MatchingTables(cache) ==
    { i \in 1..Len(cache.columns) :
          toLowerCase(Chars(cache.columns[i].table)) = toLowerCase(TablePart) }

IsQualified(cache) == Includes(LastToken, ".") /\ MatchingTables(cache) # {}

\* the columns of the first matching table that start with ColumnPart, each
\* after the table text as typed and "."
QualifiedCandidates(cache) ==
    LET first == CHOOSE i \in MatchingTables(cache) : \A j \in MatchingTables(cache) : i <= j
        kept == FilterStartsWith(CharsOf(cache.columns[first].cols), ColumnPart)
    IN  [i \in 1..Len(kept) |-> TablePart \o <<".">> \o kept[i]]

\* C23 as stated: when the last token contains "." and the part before its
\* last "." is a cached table but for the case, the candidates are that
\* table's columns starting with the part after it, each after the table text
\* as typed and ".", and the substring is the last token.
C23_QualifiedColumns ==
    (Completed /\ IsQualified(Completion.cache)) =>
        /\ Completion.out.matches = QualifiedCandidates(Completion.cache)
        /\ Completion.out.substring = LastToken

\* C23, amended: the same for a line whose leading-trimmed form does not start
\* with "."; the table is the first cached one that matches.
C23_QualifiedColumnsOutsideDotLines ==
    (Completed /\ ~IsDotLine /\ IsQualified(Completion.cache)) =>
        /\ Completion.out.matches = QualifiedCandidates(Completion.cache)
        /\ Completion.out.substring = LastToken

C23_Witness ==
    /\ Completed
    /\ request[1].text = <<"S", "E", "L", "E", "C", "T", " ", "U", "S", "E", "R", "S", ".", "i">>
    /\ Completion.cache.tables = <<"users">>
    /\ Completion.out.matches = << <<"U", "S", "E", "R", "S", ".", "i", "d">> >>
    /\ Completion.out.substring = <<"U", "S", "E", "R", "S", ".", "i">>

\* C24: when the last token contains "." and the part before its last "." is
\* no cached table, there is no candidate.
C24_UnknownTableNoCandidates ==
    (/\ Completed
     /\ ~IsDotLine
     /\ Includes(LastToken, ".")
     /\ MatchingTables(Completion.cache) = {})
        => Completion.out.matches = <<>>

ClaimedKeywords ==
    { <<"F", "R", "O", "M">>, <<"J", "O", "I", "N">>, <<"I", "N", "T", "O">>,
      <<"U", "P", "D", "A", "T", "E">>, <<"T", "A", "B", "L", "E">> }

\* the cached table names that start with the last token
TableCandidates(cache) == FilterStartsWith(CharsOf(cache.tables), LastToken)

\* C25 as stated: when the second-to-last token, upper-cased, is FROM, JOIN,
\* INTO, UPDATE or TABLE, the candidates are the cached table names that start
\* with the last token, and nothing else.
C25_TablesAfterKeyword ==
    (Completed /\ PrevTokenUpper \in ClaimedKeywords) =>
        Completion.out.matches = TableCandidates(Completion.cache)

\* C25, amended: the same when no earlier rule takes the line: its
\* leading-trimmed form does not start with ".", its last token is not empty
\* and does not name a cached table before a ".".
C25_TablesAfterKeywordWhenNoEarlierRule ==
    (/\ Completed
     /\ ~IsDotLine
     /\ LastToken # <<>>
     /\ ~IsQualified(Completion.cache)
     /\ PrevTokenUpper \in ClaimedKeywords)
        => /\ Completion.out.matches = TableCandidates(Completion.cache)
           /\ Completion.out.substring = LastToken

C25_Witness ==
    /\ Completed
    /\ request[1].text = <<"f", "r", "o", "m", "\t", "U">>
    /\ Completion.cache.allColumns = <<"ID", "users", "id">>
    /\ Completion.out.matches = << <<"u", "s", "e", "r", "s">> >>

\* C26: in the default context (the line is no dot line, its last token is
\* not empty and holds no ".", and the token before it is no table keyword)
\* the candidates are the cached table names and column names that start with
\* the last token, each once.
C26_DefaultUnionWithoutDuplicates ==
    (/\ Completed
     /\ ~IsDotLine
     /\ LastToken # <<>>
     /\ ~Includes(LastToken, ".")
     /\ PrevTokenUpper \notin ClaimedKeywords)
        => LET cache == Completion.cache
               out == Completion.out
           IN  /\ Range(out.matches) =
                      { Chars(n) : n \in { m \in Range(cache.tables) \cup Range(cache.allColumns) :
                            StartsWithText(toLowerCase(Chars(m)), toLowerCase(LastToken)) } }
               /\ NoDuplicates(out.matches)
               /\ out.substring = LastToken

C26_Witness ==
    /\ Completed
    /\ request[1].text = <<"S", "E", "L", "E", "C", "T", " ", "u">>
    /\ Completion.cache.tables = <<"Orders", "users">>
    /\ Completion.cache.allColumns = <<"ID", "users", "id">>
    /\ Completion.out.matches = << <<"u", "s", "e", "r", "s">> >>

\* C27: a line that is empty or white space has no candidates and an empty
\* substring; a line whose leading-trimmed form starts with "." has as
\* candidates the registry names that start with that form, case ignored, and
\* that form as substring.
C27_EmptyAndDotLines ==
    Completed =>
        LET typed == TrimStart(request[1].text)
            out == Completion.out
        IN  /\ (\A i \in 1..Len(request[1].text) : IsWhite(request[1].text[i])) =>
                   out = [matches |-> <<>>, substring |-> <<>>]
            /\ IsDotLine =>
                   /\ Range(out.matches) =
                          { n \in Registry : StartsWithText(toLowerCase(n), toLowerCase(typed)) }
                   /\ NoDuplicates(out.matches)
                   /\ out.substring = typed

C27_Witness ==
    /\ Completed
    /\ request[1].text = <<".", "S", "C", "H", "E">>
    /\ Completion.out.matches = <<Name_schema>>
    /\ Completion.out.substring = <<".", "S", "C", "H", "E">>

\* C28: once the session has closed, which saves the history, loading the
\* file gives back the statements of the session in their order, the last
\* maxSize of them.
C28_SavedHistoryLoadsBack ==
    closed => HistoryLoad(historyFile) = LastN(history, maxSize)

\* the statement add was given, without its surrounding white space
AddedText == TrimEnd(TrimStart(request'[1].command))

\* C29: add appends the trimmed statement exactly when it is not empty and is
\* not the current last entry, whatever the earlier entries are; otherwise it
\* leaves the history as it is.
C29_AddDeduplicatesAgainstLastOnly ==
    [][ (request # <<>> /\ request[1].kind = "history" /\ request'[1].op = "add") =>
            history' = IF AddedText # <<>> /\ (history = <<>> \/ AddedText # Last(history))
                       THEN Append(history, AddedText)
                       ELSE history ]_vars

C29_Witness ==
    /\ request # <<>>
    /\ request[1].kind = "history"
    /\ request[1].op = "add"
    /\ request[1].command = <<" ", "a", " ">>
    /\ history = << <<"a">>, <<"b", ";">>, <<"a">> >>

\* C30: the history in memory holds at most the configured maximum of
\* entries, and so does the file.
C30_HistoryBounded ==
    (request # <<>> /\ request[1].kind = "history") =>
        /\ Len(history) <= request[1].maxSize
        /\ Len(HistoryLoad(historyFile)) <= request[1].maxSize

\* ---- claims about the session's invariants and the order of its output

\* a raw line made of whitespace only (the empty line included)
IsBlankLine(line) == \A k \in 1..Len(line) : IsWhite(line[k])

\* C34: in every reachable state isMultiline is true exactly when the
\* multiline buffer is non-empty, and the prompt is the continuation prompt
\* exactly when isMultiline is true.
C34_MultilineFlagBufferAndPromptAgree ==
    /\ isMultiline <=> multilineBuffer # <<>>
    /\ prompt = Continuation <=> isMultiline

\* a statement was interrupted and a second one is being accumulated
C34_Witness ==
    /\ lastEvent = "line"
    /\ Len(input) = 3
    /\ isMultiline
    /\ multilineBuffer = <<"a", NL, "a">>
    /\ prompt = Continuation
    /\ calls = <<>>
    /\ ~closed

\* C35: an exit token received in MULTILINE state closes the session without
\* dispatching the pending buffer, printing for it or recording it: no call is
\* added, the history is unchanged and the saved file holds the history as it
\* was before the token.
C35_ExitInMultilineDiscardsBuffer ==
    [][(LineStep /\ isMultiline /\ Delivered \in ExitTokens)
        => /\ closed'
           /\ calls' = calls
           /\ printed' = printed
           /\ history' = history
           /\ historyFile' = JoinNL(LastN(history, maxSize))]_vars

C35_Witness ==
    /\ lastEvent = "line"
    /\ Len(input) = 2
    /\ Trim(input[1]) = <<"a">>
    /\ input[2] = Tok_exit
    /\ isMultiline
    /\ multilineBuffer = <<"a">>
    /\ closed
    /\ calls = <<>>
    /\ printed = <<>>
    /\ history = <<>>
    /\ historyFile = <<>>

\* C36: an empty or whitespace-only line received in MULTILINE state leaves
\* the buffer, the state and the prompt as they are and dispatches, prints,
\* records and closes nothing.
C36_BlankLineInMultilineIsIgnored ==
    [][(LineStep /\ isMultiline /\ IsBlankLine(Last(input')))
        => UNCHANGED <<isMultiline, multilineBuffer, prompt, history,
                       historyFile, closed, calls, printed>>]_vars

C36_Witness ==
    /\ lastEvent = "line"
    /\ Len(input) = 2
    /\ input[1] = <<" ", "a", " ">>
    /\ input[2] = <<" ">>
    /\ isMultiline
    /\ multilineBuffer = <<"a">>
    /\ prompt = Continuation
    /\ calls = <<>>
    /\ printed = <<>>
    /\ ~closed

\* C37: results are printed in submission order: no call has completed (and
\* had its unit's output printed) while a call dispatched before it is still
\* in flight.
C37_PrintedInSubmissionOrder ==
    \A i, j \in 1..Len(calls) :
        (i < j /\ calls[j].phase = "done") => calls[i].phase = "done"

\* ---- claims about what completer returns and what the cache holds

\* C38: every candidate completer returns begins, letter case aside, with the
\* substring it returns as the text being replaced.
C38_CandidatesExtendSubstring ==
    Completed =>
        \A k \in 1..Len(Completion.out.matches) :
            StartsWithText(toLowerCase(Completion.out.matches[k]),
                           toLowerCase(Completion.out.substring))

\* "from<TAB>U" completes to the table users, whose first letter differs in
\* case from the typed one
C38_Witness ==
    /\ Completed
    /\ request[1].text = <<"f", "r", "o", "m", "\t", "U">>
    /\ Completion.out.substring = <<"U">>
    /\ Completion.out.matches = << <<"u", "s", "e", "r", "s">> >>

\* C39: the installed cache is internally consistent after any sequence of
\* loads: its table names are the keys of its columns map, and allColumns
\* holds the column names of the map's lists, no more and no fewer.
C39_CacheInternallyConsistent ==
    /\ Range(schemaCache.tables) =
           { schemaCache.columns[i].table : i \in 1..Len(schemaCache.columns) }
    /\ Range(schemaCache.allColumns) =
           UNION { Range(schemaCache.columns[i].cols) :
                       i \in 1..Len(schemaCache.columns) }

\* a second load has replaced the cache of the first
C39_Witness ==
    /\ Len(loads) = 2
    /\ Installed(1) /\ Installed(2)
    /\ loads[1].cache.tables = <<"users">>
    /\ schemaCache.tables = <<"posts">>
    /\ schemaCache.allColumns = <<"ID">>
    /\ schemaCache.columns = << [table |-> "posts", cols |-> <<"ID">>] >>

\* C40: for a line that ends in whitespace and is not a dot line, completer
\* returns no candidates and the empty substring, whatever the last token and
\* the cache are.
C40_TrailingWhitespaceCompletesNothing ==
    (/\ Completed
     /\ ~IsDotLine
     /\ request[1].text # <<>>
     /\ IsWhite(Last(request[1].text)))
        => Completion.out = [matches |-> <<>>, substring |-> <<>>]

\* a table keyword followed by a table name and spaces, the table being cached
C40_Witness ==
    /\ Completed
    /\ request[1].text = <<"C", "R", "E", "A", "T", "E", " ", "T", "A", "B", "L", "E",
                           " ", "u", " ", " ">>
    /\ Completion.cache.tables = <<"users">>
    /\ Completion.out.matches = <<>>
    /\ Completion.out.substring = <<>>

\* ---- claims about completions made during a session

\* C33: what completer returns depends on the line and the cache only: two
\* requests for the same line with the same cache get the same answer, in
\* whatever session state and with whatever multiline buffer each was made,
\* and a request changes neither the session's state nor the cache.
C33_CompletionIgnoresSessionState ==
    /\ [](\A a, b \in 1..Len(outputs) :
             (outputs[a].line = outputs[b].line /\ outputs[a].cache = outputs[b].cache)
                 => outputs[a].out = outputs[b].out)
    /\ [][Len(outputs') > Len(outputs)
            => UNCHANGED <<isMultiline, multilineBuffer, prompt, history, historyFile,
                           closed, calls, printed, input, schemaCache>>]_vars

\* ".h" was completed before any line and again in the middle of a statement
C33_Witness ==
    /\ Len(outputs) = 2
    /\ outputs[1].line = <<".", "h">> /\ outputs[2].line = <<".", "h">>
    /\ ~outputs[1].multiline
    /\ outputs[2].multiline
    /\ multilineBuffer # <<>>
    /\ outputs[2].out.matches = << Name_help >>
    /\ outputs[1].out = outputs[2].out

\* ---- claims about the web trigger

\* C32: in the PRODUCTION environment executeSql never hands the submitted
\* query to sql.executeRaw, and the response it returns has status 403.
C32_DisabledInProduction ==
    (request # <<>> /\ request[1].kind = "webtrigger"
                    /\ request[1].environment = "PRODUCTION")
        => \A o \in 1..Len(outputs) :
              /\ outputs[o].of # "executeRaw"
              /\ outputs[o].statusCode = 403

\* ---- claims about failures

\* C31: no outcome of the remote call is fatal: whenever the await of a
\* dispatched unit resumes, whatever the call resolved with, the session
\* prints a message for it and goes on to the prompt; the promise of its
\* handler is never rejected.
C31_EveryOutcomeIsPrinted ==
    /\ \A o \in 1..Len(outputs) : outputs[o].of # "rejected"
    /\ \A i \in 1..Len(execs) :
          (execs[i].taken /\ execs[i].owner \in {"caller", "command"})
              => \E o \in 1..Len(outputs) :
                    outputs[o].index = i /\ outputs[o].of \in {"unit", "command"}

====
